---------------------------- MODULE Spec2Model ----------------------------
(***************************************************************************)
(* A model of the antlr-ng grammar tool front end: the ErrorManager, the   *)
(* Tool driver, the SemanticPipeline and the symbol tables of Grammar.     *)
(* Every component has its own specification (SpecEM, SpecTool, ...) over  *)
(* its own group of variables; the other groups stay at their initial      *)
(* values.                                                                 *)
(***************************************************************************)
EXTENDS Integers, Sequences, FiniteSets, TLC

(***************************************************************************)
(* Bounds of the model.                                                    *)
(***************************************************************************)
\* Cap on the error and on the warning counter of the ErrorManager.
MaxIssues == 1
\* Cap on the number of registered listeners.
MaxListeners == 2
\* Cap on the error counter during a run of the tool.
MaxToolErrors == 2
\* The most errors one stage or pass reports.
MaxRaise == 1
\* The most grammar files of one run.
MaxGrammarFiles == 2
\* The number of Rule objects.
MaxRules == 4
\* The number of ATNState objects.
MaxStates == 4
\* The most runs of the SemanticPipeline on one grammar.
MaxRuns == 3
\* The most rules, and the most entries of a tokens{} block, of a channels{} block and of a
\* tokens file, of a grammar in the SemanticPipeline.
MaxAstRules == 2
MaxAstDefs == 1
\* The most parts (rules, modes, actions, blocks, options) of one grammar file whose imports are
\* integrated, and the most grammars integrated into one root.
MaxAstSize == 2
MaxMerged == 2
\* The most alternatives of a lexer rule and the most lexer commands of an alternative in the
\* symbol checks, and the most modes of a lexer grammar.
MaxAlts == 2
MaxCommands == 2
MaxModes == 2
\* The most errors a TreeParser reports and the deepest backtracking level.
MaxSyntaxErrors == 2
MaxBacktracking == 1
\* The most grammars one grammar file imports.
MaxImports == 2
\* The most elements of a serialized ATN.
MaxData == 2
\* The most channels of one channels{} block.
MaxChannelDefs == 2
\* The largest token type a tokens file gives to a token.
MaxExplicitType == 2
\* The most definitions made in a grammar before its vocabulary is imported by another one.
ImportDepth == 2

(***************************************************************************)
(* ErrorManager (src/src/tool/ErrorManager.ts)                             *)
(***************************************************************************)
VARIABLES
    errors,             \* ErrorManager.errors
    warnings,           \* ErrorManager.warnings
    errorTypes,         \* ErrorManager.errorTypes: the issue codes seen so far
    listeners,          \* ErrorManager.listeners, in registration order
    warningsAreErrors,  \* ErrorManager.warningsAreErrors
    wtaeSeverity,       \* severity of IssueCode.WarningTreatedAsErrors in the issue catalog
    lastCall            \* what the last ErrorManager call did: its emit calls and its
                        \* listener notifications, in program order

emVars == <<errors, warnings, errorTypes, listeners, warningsAreErrors, wtaeSeverity, lastCall>>

(***************************************************************************)
(* Tool (src/src/Tool.ts) and the command line runner                      *)
(***************************************************************************)
VARIABLES
    pc,             \* where the run of the tool is
    config,         \* Tool.toolConfiguration
    queue,          \* the grammars processGrammarsOnCommandLine has still to visit
    current,        \* the grammar processNonCombinedGrammar works on: "lexer" (implicit) or "main"
    prevErrors,     \* the local prevErrors of processNonCombinedGrammar
    ran,            \* the stages the current processNonCombinedGrammar call has run, in order
    raised,         \* the stages of that call during which the error count grew
    processErrors,  \* the error count when processGrammarsOnCommandLine was left
    success,        \* the result of Tool.generate
    exitCode        \* the argument of process.exit, -1 while running

toolVars == <<pc, config, queue, current, prevErrors, ran, raised, processErrors, success, exitCode>>

(***************************************************************************)
(* SemanticPipeline (src/src/semantics/BlankActionSplitterListener.ts)    *)
(***************************************************************************)
VARIABLES
    semPc,          \* the number of the pass SemanticPipeline.process runs next; 0 after its return
    semPrevErrors,  \* the local prevErrors of SemanticPipeline.process
    semRan,         \* the passes run so far, in order
    semRaised       \* the passes during which the error count grew

semVars == <<semPc, semPrevErrors, semRan, semRaised>>

(***************************************************************************)
(* Grammar: the rule table (src/unnamed/part_005)                          *)
(***************************************************************************)
VARIABLES
    rules,          \* Grammar.rules: a Map, kept as its entries [name, rule] in insertion order
    indexToRule,    \* Grammar.indexToRule
    ruleNumber,     \* Grammar.ruleNumber
    ruleIndex       \* Rule.index of every Rule object, -1 while it was never assigned

ruleVars == <<rules, indexToRule, ruleNumber, ruleIndex>>

(***************************************************************************)
(* Grammar: the token and channel tables (src/unnamed/part_005)            *)
(***************************************************************************)
VARIABLES
    g               \* the token and channel fields of a Grammar object, a record with the
                    \* fields tokenNameToTypeMap, stringLiteralToTypeMap, typeToStringLiteralList,
                    \* typeToTokenList, channelNameToValueMap, channelValueToNameList,
                    \* maxTokenType and maxChannelType, and with the history fields newTokenTypes
                    \* and newChannelNumbers: the results of its getNewTokenType and
                    \* getNewChannelNumber calls, in order

tokenVars == <<g>>

(***************************************************************************)
(* The data of the single stages                                           *)
(***************************************************************************)
VARIABLES
    atn,            \* an ATN: the record of its states array (states), of the stateNumber of
                    \* every ATNState object (stateNumber) and of the stage it is in (pc)

    serialized,     \* a SerializedJavaATN under construction: the serialized ATN (data), the
                    \* result of encodeIntsWith16BitWords (data16), the index of the element the
                    \* encoder threw for, -1 for none (thrown), and whether the encoder ran (pc)


    loading,        \* the load of the imported grammars of a root grammar: the grammar files
                    \* (fileSystem), the file of the root grammar (root), whether
                    \* loadImportedGrammars ran (pc) and what it did (the visited set, the
                    \* importedGrammars map of the Tool, the files read, the grammars descended
                    \* into, the errors, and whether the recursion comes to an end)


    semantic,       \* a grammar in the SemanticPipeline: what its AST holds (ast), the names of
                    \* g.rules in the order of their indexes (rules), the number of grammarError
                    \* calls of the token and channel assignment (messages), the number of runs
                    \* of the pipeline (runs) and whether a run got to the symbol tables
                    \* (processed); the token and channel tables of the grammar are g
    integration,    \* the integration of imported grammars: the type of the root grammar, its
                    \* AST as parsed and as it is now (root), the ASTs of the imported grammars
                    \* (imports), the grammarError calls (messages) and the position (pc)
    extraction,     \* the extraction of the implicit lexer of a combined grammar: its AST as
                    \* parsed and as it is now (ast), the lexer AST that is built (lexerAST),
                    \* what extractImplicitLexer returns (returned), whether the grammar has an
                    \* implicit lexer, the number of the next generated rule name and the
                    \* position (pc)
    symbols,        \* the symbol checks of a lexer grammar after its token types were assigned:
                    \* the modes of the grammar with their rules (modes), the names of the
                    \* tokens{} block (tokensDefs), the grammarError calls of the checks
                    \* (messages) and the position (pc); the token tables of the grammar are g
    codegen,        \* a run of the CodeGenPipeline: the grammar and the target (isLexer,
                    \* needsHeader, wantsBaseListener, wantsBaseVisitor), the options of the tool
                    \* (generateListener, generateVisitor), the error count when process was
                    \* entered (errorCount), the files written with the error count at the time
                    \* of the write (written) and the position (pc); the error count is errors
    treeParser      \* a TreeParser: the node stream as the list of the node types with DOWN and
                    \* UP (input) and the position in it (p), the fields errorRecovery, failed,
                    \* backtracking and syntaxErrors of its shared state, and what the last call
                    \* was (call), whether it consumed the node it was to match (matched),
                    \* whether it threw (thrown) and whether it reported an error (reported)

stageVars == <<atn, serialized, loading, semantic, integration, extraction, symbols, codegen, treeParser>>

\* The variables of the stages but the one named.
notAtn == <<serialized, loading, semantic, integration, extraction, symbols, codegen, treeParser>>
notSerialized == <<atn, loading, semantic, integration, extraction, symbols, codegen, treeParser>>
notLoading == <<atn, serialized, semantic, integration, extraction, symbols, codegen, treeParser>>
notSemantic == <<atn, serialized, loading, integration, extraction, symbols, codegen, treeParser>>
notIntegration == <<atn, serialized, loading, semantic, extraction, symbols, codegen, treeParser>>
notExtraction == <<atn, serialized, loading, semantic, integration, symbols, codegen, treeParser>>
notSymbols == <<atn, serialized, loading, semantic, integration, extraction, codegen, treeParser>>
notCodegen == <<atn, serialized, loading, semantic, integration, extraction, symbols, treeParser>>
notTreeParser == <<atn, serialized, loading, semantic, integration, extraction, symbols, codegen>>

\* The variables of the ErrorManager, the Tool, the SemanticPipeline and the Grammar.
toolChainVars == <<emVars, toolVars, semVars, ruleVars, tokenVars>>

vars == <<toolChainVars, stageVars>>

\* The listener objects that can be registered.
ToolListeners == {"l1", "l2"}

\* One issue code of every severity, plus IssueCode.WarningTreatedAsErrors.
IssueCodes == {"I", "W", "WO", "E", "EO", "F", "WTAE"}

\* The catalog gives WarningTreatedAsErrors an error severity; which one is read from the state.
WtaeSeverities == {"Error", "ErrorOneOff"}

\* msg.issue.severity
severity(code) ==
    CASE code = "I" -> "Info"
      [] code = "W" -> "Warning"
      [] code = "WO" -> "WarningOneOff"
      [] code = "E" -> "Error"
      [] code = "EO" -> "ErrorOneOff"
      [] code = "F" -> "Fatal"
      [] code = "WTAE" -> wtaeSeverity

\* new ANTLRMessage(code, fileName, line, column); the location (file, line, column) is 1 for
\* a position in a grammar file and 0 for a message without one (no file, line -1, column -1).
ANTLRMessage(code, loc) == [code |-> code, loc |-> loc]

\* The messages the callers emit: every issue at a grammar position (grammarError, syntaxError),
\* and an error and a warning without a position (toolError).
Messages == {ANTLRMessage(code, 1) : code \in IssueCodes} \cup {ANTLRMessage("E", 0), ANTLRMessage("W", 0)}

\* The mutable part of the ErrorManager that emit works on.
emState == [errors |-> errors, warnings |-> warnings, errorTypes |-> errorTypes, trace |-> <<>>]

\* The listener loop running from the last registered listener to the first.
notifyBackwards(s, kind, msg) ==
    LET targets == IF Len(listeners) = 0 THEN <<"default">> ELSE listeners
        n == Len(targets)
    IN [s EXCEPT !.trace = @ \o [i \in 1..n |->
            [ev |-> kind, to |-> targets[n + 1 - i], code |-> msg.code, loc |-> msg.loc]]]

\* The loop over the listeners in error() and warning(): the default listener when none is
\* registered, else every entry of the listener array in order.
notify(s, kind, msg) ==
    LET targets == IF Len(listeners) = 0 THEN <<"default">> ELSE listeners
    IN [s EXCEPT !.trace = @ \o [i \in 1..Len(targets) |->
            [ev |-> kind, to |-> targets[i], code |-> msg.code, loc |-> msg.loc]]]

\* ErrorManager.error telling the listeners without counting the message.
errorWithoutCount(s, msg) == notify(s, "error", msg)

\* ErrorManager.error
error(s, msg) == notify([s EXCEPT !.errors = @ + 1], "error", msg)

RECURSIVE emit(_, _)

\* ErrorManager.warning emitting WarningTreatedAsErrors without the location of the warning.
warningLosesLocation(s, msg) ==
    LET told == notify(s, "warning", msg)
    IN IF warningsAreErrors THEN emit(told, ANTLRMessage("WTAE", 0)) ELSE told

\* ErrorManager.warning
warning(s, msg) ==
    LET told == notify(s, "warning", msg)
    IN IF warningsAreErrors THEN emit(told, ANTLRMessage("WTAE", msg.loc)) ELSE told

\* ErrorManager.emit with the one-off test left out for ErrorOneOff.
emitNoErrorOneOffTest(s, msg) ==
    LET sev == severity(msg.code)
        called == [s EXCEPT !.trace = Append(@, [ev |-> "emit", to |-> "-", code |-> msg.code, loc |-> msg.loc])]
        after ==
            CASE sev = "WarningOneOff" /\ msg.code \in s.errorTypes -> called
              [] sev \in {"WarningOneOff", "Warning"} -> warning([called EXCEPT !.warnings = @ + 1], msg)
              [] sev \in {"ErrorOneOff", "Error", "Fatal"} -> error(called, msg)
              [] OTHER -> called
    IN [after EXCEPT !.errorTypes = @ \cup {msg.code}]

\* ErrorManager.emit
emit(s, msg) ==
    LET sev == severity(msg.code)
        called == [s EXCEPT !.trace = Append(@, [ev |-> "emit", to |-> "-", code |-> msg.code, loc |-> msg.loc])]
        after ==
            CASE sev = "WarningOneOff" /\ msg.code \in s.errorTypes -> called
              [] sev \in {"WarningOneOff", "Warning"} -> warning([called EXCEPT !.warnings = @ + 1], msg)
              [] sev = "ErrorOneOff" /\ msg.code \in s.errorTypes -> called
              [] sev \in {"ErrorOneOff", "Error", "Fatal"} -> error(called, msg)
              [] OTHER -> called
    IN [after EXCEPT !.errorTypes = @ \cup {msg.code}]

\* The ErrorManager after construction; the catalog entry of WarningTreatedAsErrors is fixed
\* for the whole run.
InitErrorManager ==
    /\ errors = 0
    /\ warnings = 0
    /\ errorTypes = {}
    /\ listeners = <<>>
    /\ warningsAreErrors = FALSE
    /\ wtaeSeverity \in WtaeSeverities
    /\ lastCall = <<>>

\* ErrorManager.toolError / grammarError / syntaxError: build the message and emit it.
grammarError(msg) ==
    /\ LET s == emit(emState, msg)
       IN /\ s.errors <= MaxIssues
          /\ s.warnings <= MaxIssues
          /\ errors' = s.errors
          /\ warnings' = s.warnings
          /\ errorTypes' = s.errorTypes
          /\ lastCall' = s.trace
    /\ UNCHANGED <<listeners, warningsAreErrors, wtaeSeverity>>

\* ErrorManager.addListener
addListener(tl) ==
    /\ Len(listeners) < MaxListeners
    /\ listeners' = Append(listeners, tl)
    /\ lastCall' = <<>>
    /\ UNCHANGED <<errors, warnings, errorTypes, warningsAreErrors, wtaeSeverity>>

\* listeners.indexOf(tl): the first position of tl, 0 when absent
indexOf(list, tl) ==
    IF \E i \in 1..Len(list) : list[i] = tl
    THEN CHOOSE i \in 1..Len(list) : list[i] = tl /\ \A j \in 1..(i - 1) : list[j] # tl
    ELSE 0

\* ErrorManager.removeListener
removeListener(tl) ==
    /\ LET index == indexOf(listeners, tl)
       IN listeners' = IF index >= 1
                       THEN SubSeq(listeners, 1, index - 1) \o SubSeq(listeners, index + 1, Len(listeners))
                       ELSE listeners
    /\ lastCall' = <<>>
    /\ UNCHANGED <<errors, warnings, errorTypes, warningsAreErrors, wtaeSeverity>>

\* ErrorManager.removeListeners
removeListeners ==
    /\ listeners' = <<>>
    /\ lastCall' = <<>>
    /\ UNCHANGED <<errors, warnings, errorTypes, warningsAreErrors, wtaeSeverity>>

\* ErrorManager.configure (longMessages only selects the message text and is not modelled)
configure(wae) ==
    /\ errors' = 0
    /\ warnings' = 0
    /\ warningsAreErrors' = wae
    /\ lastCall' = <<>>
    /\ UNCHANGED <<errorTypes, listeners, wtaeSeverity>>

\* The tool before generate is called.
InitToolVars ==
    /\ pc = "idle"
    /\ config = [grammarFiles |-> 0, warningsAreErrors |-> FALSE, generateDependencies |-> FALSE,
                 generateInterpreterData |-> FALSE, log |-> FALSE]
    /\ queue = <<>>
    /\ current = "main"
    /\ prevErrors = 0
    /\ ran = <<>>
    /\ raised = {}
    /\ processErrors = 0
    /\ success = TRUE
    /\ exitCode = -1

\* The semantic pipeline of a grammar when process() is entered.
InitSemVars ==
    /\ semPc = 1
    /\ semPrevErrors = 0
    /\ semRan = <<>>
    /\ semRaised = {}

\* The Rule objects; the first two carry the same name.
RuleObjects == 1..MaxRules

\* Rule.name
ruleName(r) == IF r <= 2 THEN "r1" ELSE "r" \o ToString(r - 1)

\* The rule table of a new Grammar.
InitRuleVars ==
    /\ rules = <<>>
    /\ indexToRule = <<>>
    /\ ruleNumber = 0
    /\ ruleIndex = [r \in RuleObjects |-> -1]

\* Token.INVALID_TYPE, Token.EOF, Token.MIN_USER_TOKEN_TYPE and Token.MIN_USER_CHANNEL_VALUE
\* of the antlr4ng runtime.
INVALID_TYPE == 0
EOF == -1
MIN_USER_TOKEN_TYPE == 1
MIN_USER_CHANNEL_VALUE == 2

\* The null entry of the reverse lists.
null == "null"

\* The fields of a Grammar after its constructor (field initialisers, initTokenSymbolTables).
newGrammar ==
    [tokenNameToTypeMap |-> <<[key |-> "EOF", value |-> EOF]>>,
     stringLiteralToTypeMap |-> <<>>,
     typeToStringLiteralList |-> <<>>,
     typeToTokenList |-> <<null>>,
     channelNameToValueMap |-> <<>>,
     channelValueToNameList |-> <<>>,
     maxTokenType |-> MIN_USER_TOKEN_TYPE - 1,
     maxChannelType |-> MIN_USER_CHANNEL_VALUE - 1,
     newTokenTypes |-> <<>>,
     newChannelNumbers |-> <<>>]

InitTokenVars == g = newGrammar

\* An ATNState object and the null entry of atn.states.
StateObjects == {"s" \o ToString(i) : i \in 1..MaxStates}

\* A new ATN: no states; the state objects are not numbered yet.
InitAtn == atn = [states |-> <<>>, stateNumber |-> [s \in StateObjects |-> -1], pc |-> "factory"]

\* A JavaScript number n as its sign and the two 16-bit halves of |n|: |n| = hi * 65536 + lo
\* (hi is at most \H8000 for the numbers of the model).
Number(neg, hi, lo) == [neg |-> neg, hi |-> hi, lo |-> lo]
minusOne == Number(TRUE, 0, 1)

\* The elements of a serialized ATN: -1, the 15-bit values, the values of two words up to
\* \H7FFFFFFF, and a value above it.
DataValues ==
    {minusOne, Number(FALSE, 0, 0), Number(FALSE, 0, \H7FFF), Number(FALSE, 0, \H8000),
     Number(FALSE, 0, \HFFFF), Number(FALSE, 1, 0), Number(FALSE, \H7FFF, \HFFFE),
     Number(FALSE, \H7FFF, \HFFFF), Number(FALSE, \H8000, 0)}

\* ATNSerializer.getSerialized(atn): the data handed to the encoder.
InitSerialized ==
    \E n \in 0..MaxData : \E data \in [1..n -> DataValues] :
        serialized = [data |-> data, data16 |-> <<>>, thrown |-> -1, pc |-> "serialized"]

\* The grammar files, and the names an import statement can hold: the files and a name
\* without a file.
GrammarFiles == {"A", "B"}
ImportNames == GrammarFiles \cup {"M"}

\* The import statements of a grammar file.
ImportLists == UNION {[1..n -> ImportNames] : n \in 0..MaxImports}

\* What the load of a root grammar starts from: new Set() for visited, no grammar in the
\* importedGrammars map of the Tool.
newLoad ==
    [visited |-> {}, importedGrammars |-> {}, reads |-> <<>>, descents |-> <<>>, errors |-> 0,
     ends |-> TRUE]

\* The files: each declares a grammar name, which need not be the name of the file, and
\* imports some grammars.
InitLoading ==
    \E fileSystem \in [GrammarFiles -> [name : GrammarFiles, imports : ImportLists]], root \in GrammarFiles :
        loading = [fileSystem |-> fileSystem, root |-> root, pc |-> "created", load |-> newLoad]

\* The data of a stage that is not looked at: an empty serialized ATN, grammar files
\* without imports.
idleSerialized == serialized = [data |-> <<>>, data16 |-> <<>>, thrown |-> -1, pc |-> "serialized"]
idleLoading ==
    loading = [fileSystem |-> [f \in GrammarFiles |-> [name |-> f, imports |-> <<>>]],
               root |-> "A", pc |-> "created", load |-> newLoad]

idleSemantic ==
    semantic = [ast |-> [kind |-> "parser", rules |-> <<>>, tokensDefs |-> <<>>, tokenIDRefs |-> <<>>,
                         terminals |-> <<>>, channelDefs |-> <<>>, tokens |-> <<>>],
                rules |-> <<>>, messages |-> 0, runs |-> 0, processed |-> FALSE]

idleIntegration ==
    integration = [pc |-> "integrated", type |-> "lexer", parsed |-> null, root |-> null,
                   imports |-> <<>>, messages |-> <<>>]

idleExtraction ==
    extraction = [pc |-> "extracted", parsed |-> null, ast |-> null, lexerAST |-> null,
                  returned |-> <<>>, implicitLexer |-> FALSE, stringLiteralRuleNumber |-> 0]

idleSymbols == symbols = [pc |-> "checked", modes |-> <<>>, tokensDefs |-> <<>>, messages |-> <<>>]

idleCodegen ==
    codegen = [pc |-> "generated", isLexer |-> TRUE, needsHeader |-> FALSE, wantsBaseListener |-> FALSE,
               wantsBaseVisitor |-> FALSE, generateListener |-> FALSE, generateVisitor |-> FALSE,
               errorCount |-> 0, written |-> <<>>]

idleTreeParser ==
    treeParser = [input |-> <<>>, p |-> 1, errorRecovery |-> FALSE, failed |-> FALSE, backtracking |-> 0,
                  syntaxErrors |-> 0, call |-> "new", matched |-> FALSE, thrown |-> FALSE,
                  reported |-> FALSE]

idleStages == idleSerialized /\ idleLoading /\ idleSemantic /\ idleIntegration /\ idleExtraction /\ idleSymbols /\ idleCodegen /\ idleTreeParser
InitStageVars == InitAtn /\ idleStages
idleNotSerialized == InitAtn /\ idleLoading /\ idleSemantic /\ idleIntegration /\ idleExtraction /\ idleSymbols /\ idleCodegen /\ idleTreeParser
idleNotLoading == InitAtn /\ idleSerialized /\ idleSemantic /\ idleIntegration /\ idleExtraction /\ idleSymbols /\ idleCodegen /\ idleTreeParser
idleNotSemantic == InitAtn /\ idleSerialized /\ idleLoading /\ idleIntegration /\ idleExtraction /\ idleSymbols /\ idleCodegen /\ idleTreeParser
idleNotIntegration == InitAtn /\ idleSerialized /\ idleLoading /\ idleSemantic /\ idleExtraction /\ idleSymbols /\ idleCodegen /\ idleTreeParser
idleNotExtraction == InitAtn /\ idleSerialized /\ idleLoading /\ idleSemantic /\ idleIntegration /\ idleSymbols /\ idleCodegen /\ idleTreeParser
idleNotSymbols == InitAtn /\ idleSerialized /\ idleLoading /\ idleSemantic /\ idleIntegration /\ idleExtraction /\ idleCodegen /\ idleTreeParser
idleNotCodegen == InitAtn /\ idleSerialized /\ idleLoading /\ idleSemantic /\ idleIntegration /\ idleExtraction /\ idleSymbols /\ idleTreeParser
idleNotTreeParser == InitAtn /\ idleSerialized /\ idleLoading /\ idleSemantic /\ idleIntegration /\ idleExtraction /\ idleSymbols /\ idleCodegen

InitEM == InitErrorManager /\ InitToolVars /\ InitSemVars /\ InitRuleVars /\ InitTokenVars /\ InitStageVars

NextEM ==
    /\ \/ \E msg \in Messages : grammarError(msg)
       \/ \E tl \in ToolListeners : addListener(tl)
       \/ \E tl \in ToolListeners : removeListener(tl)
       \/ removeListeners
       \/ \E wae \in BOOLEAN : configure(wae)
    /\ UNCHANGED <<toolVars, semVars, ruleVars, tokenVars, stageVars>>

SpecEM == InitEM /\ [][NextEM]_vars


(***************************************************************************)
(* Tool.generate, Tool.process, Tool.processNonCombinedGrammar             *)
(***************************************************************************)
\* The grammars of a run: a combined grammar with lexer rules or literals (an implicit lexer is
\* extracted), a combined grammar without, and a lexer or parser grammar.
GrammarKinds == {"combinedWithLexer", "combinedNoLexer", "nonCombined"}

\* The configurations of a run (IToolConfiguration).
Configurations ==
    [grammarFiles : 0..MaxGrammarFiles,
     warningsAreErrors : BOOLEAN,
     generateDependencies : BOOLEAN,
     generateInterpreterData : BOOLEAN,
     log : BOOLEAN]

\* The stages of processNonCombinedGrammar in program order.
Stages == <<"rules", "sem", "atn", "interp", "anal", "gen">>

\* A stage reports k errors through the ErrorManager.
report(k) ==
    /\ errors + k <= MaxToolErrors
    /\ errors' = errors + k
    /\ UNCHANGED <<warnings, errorTypes, listeners, warningsAreErrors, wtaeSeverity, lastCall>>

\* The catch block of generate: an exception anywhere below makes generate return false.
thrown ==
    /\ pc' = "finally"
    /\ success' = FALSE
    /\ processErrors' = errors
    /\ UNCHANGED <<emVars, config, queue, current, prevErrors, ran, raised, exitCode>>

\* Tool.generate up to the call of processGrammarsOnCommandLine.
generate(parameters) ==
    /\ pc = "idle"
    /\ config' = parameters
    /\ IF parameters.grammarFiles = 0
       THEN /\ report(1)
            /\ pc' = "finally"
            /\ success' = FALSE
       ELSE /\ errors' = 0
            /\ warnings' = 0
            /\ warningsAreErrors' = parameters.warningsAreErrors
            /\ UNCHANGED <<errorTypes, listeners, wtaeSeverity, lastCall>>
            /\ pc' = "sort"
            /\ success' = TRUE
    /\ UNCHANGED <<queue, current, prevErrors, ran, raised, processErrors, exitCode>>

\* Tool.sortGrammarByTokenVocab: every file is parsed; a file that does not parse is left out.
sortGrammarByTokenVocab(roots, k) ==
    /\ pc = "sort"
    /\ Len(roots) <= config.grammarFiles
    /\ report(k)
    /\ queue' = roots
    /\ pc' = "loop"
    /\ UNCHANGED <<config, current, prevErrors, ran, raised, processErrors, success, exitCode>>

\* The loop of processGrammarsOnCommandLine: one grammar per step.
processGrammarsOnCommandLine ==
    /\ pc = "loop"
    /\ IF queue = <<>>
       THEN /\ pc' = "finally"
            /\ processErrors' = errors
            /\ UNCHANGED queue
       ELSE /\ queue' = Tail(queue)
            /\ pc' = IF ~config.generateDependencies /\ errors = 0 THEN "process" ELSE "loop"
            /\ UNCHANGED processErrors
    /\ current' = "main"
    /\ UNCHANGED <<emVars, config, prevErrors, ran, raised, success, exitCode>>

\* Tool.process: load the imports, run the transform pipeline, extract the implicit lexer.
process(kind, k) ==
    /\ pc = "process"
    /\ report(k)
    /\ current' = IF kind = "combinedWithLexer" THEN "lexer" ELSE "main"
    /\ pc' = "rules"
    /\ UNCHANGED <<config, queue, prevErrors, ran, raised, processErrors, success, exitCode>>

\* The return of processNonCombinedGrammar: after the implicit lexer the grammar itself is
\* processed (Tool.process), after the grammar the loop goes on.
returnFromGrammar ==
    /\ current' = "main"
    /\ pc' = IF current = "lexer" THEN "rules" ELSE "loop"

\* What a stage leaves in ran and raised.
stageRan(stage, k) ==
    /\ ran' = Append(ran, stage)
    /\ raised' = IF k > 0 THEN raised \cup {stage} ELSE raised

\* The test after the semantic pipeline that never stops the run.
semanticFailedNever(errorsNow) == FALSE

\* if (this.errorManager.errors > prevErrors) after the semantic pipeline
semanticFailed(errorsNow) == errorsNow > prevErrors

\* if (g.tool.getNumErrors() > prevErrors) after the analysis pipeline
analysisFailed(errorsNow) == errorsNow > prevErrors

\* processNonCombinedGrammar: checkForRuleIssues and the assignment of prevErrors. It is the
\* first stage of a call, so the record of the stages starts here.
checkForRuleIssues(ruleFail, k) ==
    /\ pc = "rules"
    /\ ruleFail => k > 0
    /\ report(k)
    /\ ran' = <<"rules">>
    /\ raised' = IF k > 0 THEN {"rules"} ELSE {}
    /\ IF ruleFail
       THEN /\ returnFromGrammar
            /\ UNCHANGED prevErrors
       ELSE /\ prevErrors' = errors'
            /\ pc' = "sem"
            /\ UNCHANGED current
    /\ UNCHANGED <<config, queue, processErrors, success, exitCode>>

\* processNonCombinedGrammar: the semantic pipeline and the test after it.
semanticPipeline(k) ==
    /\ pc = "sem"
    /\ report(k)
    /\ stageRan("sem", k)
    /\ IF semanticFailed(errors')
       THEN returnFromGrammar
       ELSE pc' = "atn" /\ UNCHANGED current
    /\ UNCHANGED <<config, queue, prevErrors, processErrors, success, exitCode>>

\* processNonCombinedGrammar: factory.createATN().
createATN(k) ==
    /\ pc = "atn"
    /\ report(k)
    /\ stageRan("atn", k)
    /\ pc' = "interp"
    /\ UNCHANGED <<config, queue, current, prevErrors, processErrors, success, exitCode>>

\* processNonCombinedGrammar: the interpreter data file, written only without any error; a
\* failing write reports CannotWriteFile.
generateInterpreterData(writeFails) ==
    /\ pc = "interp"
    /\ IF errors = 0 /\ config.generateInterpreterData
       THEN /\ report(IF writeFails THEN 1 ELSE 0)
            /\ stageRan("interp", IF writeFails THEN 1 ELSE 0)
       ELSE /\ ~writeFails
            /\ UNCHANGED <<emVars, ran, raised>>
    /\ pc' = "anal"
    /\ UNCHANGED <<config, queue, current, prevErrors, processErrors, success, exitCode>>

\* processNonCombinedGrammar: the analysis pipeline and the test after it.
analysisPipeline(k) ==
    /\ pc = "anal"
    /\ report(k)
    /\ stageRan("anal", k)
    /\ IF analysisFailed(errors')
       THEN returnFromGrammar
       ELSE pc' = "gen" /\ UNCHANGED current
    /\ UNCHANGED <<config, queue, prevErrors, processErrors, success, exitCode>>

\* processNonCombinedGrammar: the code generation pipeline (genCode is true on this path).
codeGenPipeline(k) ==
    /\ pc = "gen"
    /\ report(k)
    /\ stageRan("gen", k)
    /\ returnFromGrammar
    /\ UNCHANGED <<config, queue, prevErrors, processErrors, success, exitCode>>

\* An exception in one of the steps below generate.
exception ==
    /\ pc \in {"sort", "loop", "process", "rules", "sem", "atn", "interp", "anal", "gen"}
    /\ thrown

\* The finally block of generate and its return.
generateReturns(saveFails) ==
    /\ pc = "finally"
    /\ IF config.log /\ saveFails THEN report(1) ELSE ~saveFails /\ UNCHANGED emVars
    /\ pc' = "returned"
    /\ UNCHANGED <<config, queue, current, prevErrors, ran, raised, processErrors, success, exitCode>>

\* The runner: process.exit(1) when generate returned false, else process.exit(0).
runnerExit ==
    /\ pc = "returned"
    /\ exitCode' = IF ~success THEN 1 ELSE 0
    /\ pc' = "exited"
    /\ UNCHANGED <<emVars, config, queue, current, prevErrors, ran, raised, processErrors, success>>

\* Sequences of grammar kinds of length at most n.
RootLists(n) == UNION {[1..m -> GrammarKinds] : m \in 0..n}

InitTool == InitErrorManager /\ InitToolVars /\ InitSemVars /\ InitRuleVars /\ InitTokenVars /\ InitStageVars

NextTool ==
  /\ UNCHANGED <<semVars, ruleVars, tokenVars, stageVars>>
  /\
    \/ \E parameters \in Configurations : generate(parameters)
    \/ \E roots \in RootLists(MaxGrammarFiles), k \in 0..MaxRaise : sortGrammarByTokenVocab(roots, k)
    \/ processGrammarsOnCommandLine
    \/ \E kind \in GrammarKinds, k \in 0..MaxRaise : process(kind, k)
    \/ \E ruleFail \in BOOLEAN, k \in 0..MaxRaise : checkForRuleIssues(ruleFail, k)
    \/ \E k \in 0..MaxRaise : semanticPipeline(k)
    \/ \E k \in 0..MaxRaise : createATN(k)
    \/ \E writeFails \in BOOLEAN : generateInterpreterData(writeFails)
    \/ \E k \in 0..MaxRaise : analysisPipeline(k)
    \/ \E k \in 0..MaxRaise : codeGenPipeline(k)
    \/ exception
    \/ \E saveFails \in BOOLEAN : generateReturns(saveFails)
    \/ runnerExit

SpecTool == InitTool /\ [][NextTool]_vars

(***************************************************************************)
(* SemanticPipeline.process                                                *)
(***************************************************************************)
\* The passes of SemanticPipeline.process in program order.
Passes == <<"RuleCollector", "BasicSemanticChecks", "LeftRecursiveRuleTransformer", "defineRule",
            "SymbolCollector", "SymbolChecks", "defineAction", "importTokensFromTokensFile",
            "assignTokenTypes", "checkForModeConflicts", "checkForUnreachableTokens",
            "assignChannelTypes", "checkRuleArgs", "identifyStartRules",
            "checkForQualifiedRuleIssues", "AttributeChecks", "UseDefAnalyzer">>

\* The passes that only fill the grammar and report nothing: the loops over defineRule and
\* defineAction, and identifyStartRules.
SilentPasses == {"defineRule", "defineAction", "identifyStartRules"}

\* The test after the basic checks: did the count grow during them?
basicsFailed(errorsNow) == errorsNow > semPrevErrors

\* The test after the left-recursion transformation: did the count grow during it?
leftRecursionFailed(errorsNow) == errorsNow > semPrevErrors

\* The symbol test that lets every grammar through.
symbolErrorsIgnored(errorsNow) == FALSE

\* The test after checkForQualifiedRuleIssues: g.tool.getNumErrors() > 0
symbolErrors(errorsNow) == errorsNow > 0

\* One pass of SemanticPipeline.process, the statements up to the next pass included: the
\* assignments of prevErrors before the basic checks and before the left-recursion
\* transformation, and the three tests of the error count with their return.
semanticPass(k) ==
    /\ semPc \in 1..Len(Passes)
    /\ Passes[semPc] \in SilentPasses => k = 0
    /\ report(k)
    /\ semRan' = Append(semRan, Passes[semPc])
    /\ semRaised' = IF k > 0 THEN semRaised \cup {Passes[semPc]} ELSE semRaised
    /\ semPrevErrors' = IF Passes[semPc] \in {"RuleCollector", "BasicSemanticChecks"}
                        THEN errors' ELSE semPrevErrors
    /\ semPc' =
        CASE Passes[semPc] = "BasicSemanticChecks" /\ basicsFailed(errors') -> 0
          [] Passes[semPc] = "LeftRecursiveRuleTransformer" /\ leftRecursionFailed(errors') -> 0
          [] Passes[semPc] = "checkForQualifiedRuleIssues" /\ symbolErrors(errors') -> 0
          [] semPc = Len(Passes) -> 0
          [] OTHER -> semPc + 1
    /\ UNCHANGED toolVars

\* The pipeline is entered with the error count of the run so far: zero for the first grammar,
\* possibly more after an implicit lexer was processed.
InitSem ==
    /\ errors \in 0..MaxRaise
    /\ warnings = 0
    /\ errorTypes = {}
    /\ listeners = <<>>
    /\ warningsAreErrors = FALSE
    /\ wtaeSeverity \in WtaeSeverities
    /\ lastCall = <<>>
    /\ InitToolVars
    /\ InitSemVars
    /\ InitRuleVars
    /\ InitTokenVars /\ InitStageVars

NextSem == (\E k \in 0..MaxRaise : semanticPass(k)) /\ UNCHANGED <<ruleVars, tokenVars, stageVars>>

SpecSem == InitSem /\ [][NextSem]_vars

(***************************************************************************)
(* Grammar.defineRule, Grammar.undefineRule                                *)
(***************************************************************************)
\* Map.has
mapHas(map, key) == \E i \in 1..Len(map) : map[i].name = key

\* Map.delete: the entry is taken out, the others keep their order.
mapDelete(map, key) == SelectSeq(map, LAMBDA entry : entry.name # key)

\* Array.splice(index, 1) with a zero-based index
splice(list, index) == SubSeq(list, 1, index) \o SubSeq(list, index + 2, Len(list))

\* Grammar.defineRule
defineRule(r) ==
    /\ IF mapHas(rules, ruleName(r))
       THEN UNCHANGED ruleVars
       ELSE /\ rules' = Append(rules, [name |-> ruleName(r), rule |-> r])
            /\ ruleIndex' = [ruleIndex EXCEPT ![r] = ruleNumber]
            /\ ruleNumber' = ruleNumber + 1
            /\ indexToRule' = Append(indexToRule, r)
    /\ UNCHANGED <<emVars, toolVars, semVars, tokenVars, stageVars>>

\* Grammar.undefineRule without the loop that renumbers the later rules.
undefineRuleNoRenumbering(r) ==
    /\ IF ruleIndex[r] < 0 \/ ruleIndex[r] >= Len(indexToRule) \/ indexToRule[ruleIndex[r] + 1] # r
       THEN UNCHANGED ruleVars
       ELSE /\ rules' = mapDelete(rules, ruleName(r))
            /\ indexToRule' = splice(indexToRule, ruleIndex[r])
            /\ ruleNumber' = ruleNumber - 1
            /\ UNCHANGED ruleIndex
    /\ UNCHANGED <<emVars, toolVars, semVars, tokenVars, stageVars>>

\* Grammar.undefineRule
undefineRule(r) ==
    /\ IF ruleIndex[r] < 0 \/ ruleIndex[r] >= Len(indexToRule) \/ indexToRule[ruleIndex[r] + 1] # r
       THEN UNCHANGED ruleVars
       ELSE LET spliced == splice(indexToRule, ruleIndex[r])
                moved == {spliced[i] : i \in (ruleIndex[r] + 1)..Len(spliced)}
            IN /\ rules' = mapDelete(rules, ruleName(r))
               /\ indexToRule' = spliced
               /\ ruleIndex' = [x \in RuleObjects |-> IF x \in moved THEN ruleIndex[x] - 1 ELSE ruleIndex[x]]
               /\ ruleNumber' = ruleNumber - 1
    /\ UNCHANGED <<emVars, toolVars, semVars, tokenVars, stageVars>>

InitRules == InitErrorManager /\ InitToolVars /\ InitSemVars /\ InitRuleVars /\ InitTokenVars /\ InitStageVars

NextRules ==
    \/ \E r \in RuleObjects : defineRule(r)
    \/ \E r \in RuleObjects : undefineRule(r)

SpecRules == InitRules /\ [][NextRules]_vars

(***************************************************************************)
(* Grammar: token types                                                    *)
(***************************************************************************)
\* An optional argument that is not given (ttype?: number, value?: number).
undefined == -2

\* The token names, string literals and channel names of the grammars.
TokenNames == {"A", "B"}
Literals == {"'x'", "'y'"}
ChannelNames == {"CH1", "CH2"}

\* text.startsWith("'")
isLiteral(text) == text \in Literals

\* The types a tokens file can name: user token types (type 0 is reserved as invalid, and the
\* vocab files the tool writes hold only types from MIN_USER_TOKEN_TYPE on).
TokensFileTypes == MIN_USER_TOKEN_TYPE..MaxExplicitType

\* A Map is kept as the sequence of its entries in insertion order.
has(map, key) == \E i \in 1..Len(map) : map[i].key = key
get(map, key) == (CHOOSE i \in 1..Len(map) : map[i].key = key)
put(map, key, value) ==
    IF has(map, key)
    THEN [i \in 1..Len(map) |-> IF map[i].key = key THEN [key |-> key, value |-> value] ELSE map[i]]
    ELSE Append(map, [key |-> key, value |-> value])
valueOf(map, key) == map[get(map, key)].value

Max(a, b) == IF a >= b THEN a ELSE b

\* Utils.setSize: grow with null entries or truncate.
setSize(list, size) ==
    IF Len(list) < size
    THEN list \o [i \in 1..(size - Len(list)) |-> null]
    ELSE SubSeq(list, 1, size)

\* list[index] and list[index] = value for the zero-based lists of the program.
at(list, index) == list[index + 1]
setAt(list, index, value) == [list EXCEPT ![index + 1] = value]

\* getNewTokenType without the increment.
getNewTokenTypeNoIncrement(gr) ==
    [gr EXCEPT !.newTokenTypes = Append(@, gr.maxTokenType)]

\* Grammar.getNewTokenType: the grammar after the call; the result is its maxTokenType.
getNewTokenType(gr) ==
    [gr EXCEPT !.maxTokenType = @ + 1, !.newTokenTypes = Append(@, gr.maxTokenType + 1)]

\* getNewChannelNumber without the increment.
getNewChannelNumberNoIncrement(gr) ==
    [gr EXCEPT !.newChannelNumbers = Append(@, gr.maxChannelType)]

\* Grammar.getNewChannelNumber: the grammar after the call; the result is its maxChannelType.
getNewChannelNumber(gr) ==
    [gr EXCEPT !.maxChannelType = @ + 1, !.newChannelNumbers = Append(@, gr.maxChannelType + 1)]

\* setTokenForType that records the text whatever was there before.
setTokenForTypeLastWins(gr, ttype, text) ==
    IF ttype = EOF
    THEN gr
    ELSE LET sized == IF ttype >= Len(gr.typeToTokenList)
                      THEN setSize(gr.typeToTokenList, ttype + 1)
                      ELSE gr.typeToTokenList
         IN [gr EXCEPT !.typeToTokenList = setAt(sized, ttype, text)]

\* Grammar.setTokenForType
setTokenForType(gr, ttype, text) ==
    IF ttype = EOF
    THEN gr
    ELSE LET sized == IF ttype >= Len(gr.typeToTokenList)
                      THEN setSize(gr.typeToTokenList, ttype + 1)
                      ELSE gr.typeToTokenList
             prevToken == at(sized, ttype)
         IN [gr EXCEPT !.typeToTokenList =
                IF prevToken = null \/ isLiteral(prevToken) THEN setAt(sized, ttype, text) ELSE sized]

\* defineTokenName without the entry in typeToTokenList.
defineTokenNameNoReverseEntry(gr, name, ttype) ==
    IF has(gr.tokenNameToTypeMap, name)
    THEN gr
    ELSE LET allocated == IF ttype = undefined THEN getNewTokenType(gr) ELSE gr
             type == IF ttype = undefined THEN allocated.maxTokenType ELSE ttype
             mapped == [allocated EXCEPT !.tokenNameToTypeMap = put(@, name, type)]
         IN [mapped EXCEPT !.maxTokenType = Max(@, type)]

\* Grammar.defineTokenName
defineTokenName(gr, name, ttype) ==
    IF has(gr.tokenNameToTypeMap, name)
    THEN gr
    ELSE LET allocated == IF ttype = undefined THEN getNewTokenType(gr) ELSE gr
             type == IF ttype = undefined THEN allocated.maxTokenType ELSE ttype
             mapped == [allocated EXCEPT !.tokenNameToTypeMap = put(@, name, type)]
             named == setTokenForType(mapped, type, name)
         IN [named EXCEPT !.maxTokenType = Max(@, type)]

\* Grammar.defineStringLiteral
defineStringLiteral(gr, lit, ttype) ==
    IF ttype = undefined /\ has(gr.stringLiteralToTypeMap, lit)
    THEN gr
    ELSE LET allocated == IF ttype = undefined THEN getNewTokenType(gr) ELSE gr
             type == IF ttype = undefined THEN allocated.maxTokenType ELSE ttype
         IN IF ~has(allocated.stringLiteralToTypeMap, lit)
            THEN LET mapped == [allocated EXCEPT !.stringLiteralToTypeMap = put(@, lit, type)]
                     sized == IF type >= Len(mapped.typeToStringLiteralList)
                              THEN setSize(mapped.typeToStringLiteralList, type + 1)
                              ELSE mapped.typeToStringLiteralList
                     listed == [mapped EXCEPT !.typeToStringLiteralList = setAt(sized, type, lit)]
                 IN setTokenForType(listed, type, lit)
            ELSE allocated

\* Grammar.defineTokenAlias
defineTokenAlias(gr, name, lit) ==
    LET defined == defineTokenName(gr, name, undefined)
        ttype == valueOf(defined.tokenNameToTypeMap, name)
        aliased == [defined EXCEPT !.stringLiteralToTypeMap = put(@, lit, ttype)]
    IN setTokenForType(aliased, ttype, name)

\* Grammar.setChannelNameForValue
setChannelNameForValue(gr, channelValue, name) ==
    LET sized == IF channelValue >= Len(gr.channelValueToNameList)
                 THEN setSize(gr.channelValueToNameList, channelValue + 1)
                 ELSE gr.channelValueToNameList
    IN [gr EXCEPT !.channelValueToNameList =
            IF at(sized, channelValue) = null THEN setAt(sized, channelValue, name) ELSE sized]

\* Grammar.defineChannelName
defineChannelName(gr, name, value) ==
    IF has(gr.channelNameToValueMap, name)
    THEN gr
    ELSE LET allocated == IF value = undefined THEN getNewChannelNumber(gr) ELSE gr
             number == IF value = undefined THEN allocated.maxChannelType ELSE value
             mapped == [allocated EXCEPT !.channelNameToValueMap = put(@, name, number)]
             named == setChannelNameForValue(mapped, number, name)
         IN [named EXCEPT !.maxChannelType = Max(@, number)]

\* A loop "for (const key of map.keys()) gr = define(gr, key, map.get(key))" from entry i on.
RECURSIVE defineAll(_, _, _, _)
defineAll(gr, map, i, kind) ==
    IF i > Len(map)
    THEN gr
    ELSE defineAll(CASE kind = "token" -> defineTokenName(gr, map[i].key, map[i].value)
                     [] kind = "literal" -> defineStringLiteral(gr, map[i].key, map[i].value)
                     [] kind = "channel" -> defineChannelName(gr, map[i].key, map[i].value),
                   map, i + 1, kind)

\* The loop of importVocab that copies a reverse list of importG over the one of this grammar.
copyList(mine, theirs) ==
    LET sized == setSize(mine, Max(Len(mine), Len(theirs)))
    IN [i \in 1..Len(sized) |-> IF i <= Len(theirs) THEN theirs[i] ELSE sized[i]]

\* Grammar.importVocab
importVocab(gr, importG) ==
    LET tokens == defineAll(gr, importG.tokenNameToTypeMap, 1, "token")
        literals == defineAll(tokens, importG.stringLiteralToTypeMap, 1, "literal")
        channels == defineAll(literals, importG.channelNameToValueMap, 1, "channel")
    IN [channels EXCEPT
            !.typeToTokenList = copyList(@, importG.typeToTokenList),
            !.maxTokenType = Max(@, Len(importG.typeToTokenList) - 1),
            !.channelValueToNameList = copyList(@, importG.channelValueToNameList),
            !.maxChannelType = Max(@, Len(importG.channelValueToNameList) - 1)]

\* The grammars one call of a defining method leads to.
definitions(gr) ==
    {defineTokenName(gr, name, ttype) : name \in TokenNames, ttype \in {undefined} \cup TokensFileTypes}
    \cup {defineStringLiteral(gr, lit, ttype) : lit \in Literals, ttype \in {undefined} \cup TokensFileTypes}
    \cup {defineTokenAlias(gr, pair[1], pair[2]) : pair \in TokenNames \X Literals}
    \cup {defineChannelName(gr, name, undefined) : name \in ChannelNames}

\* The grammars reached from a new one with at most n calls of the defining methods.
RECURSIVE grammarsAfter(_)
grammarsAfter(n) ==
    IF n = 0
    THEN {newGrammar}
    ELSE LET before == grammarsAfter(n - 1)
         IN before \cup UNION {definitions(gr) : gr \in before}

\* The grammars whose vocabulary is imported: an implicit lexer or a token vocabulary source.
Vocabularies ==
    {[gr EXCEPT !.newTokenTypes = <<>>, !.newChannelNumbers = <<>>] : gr \in grammarsAfter(ImportDepth)}

\* A call of defineTokenName: with a type for an entry of the tokens file, without one for a
\* token of the grammar.
callDefineTokenName(name, ttype) ==
    /\ g' = defineTokenName(g, name, ttype)
    /\ UNCHANGED <<emVars, toolVars, semVars, ruleVars, stageVars>>

\* A call of defineStringLiteral.
callDefineStringLiteral(lit, ttype) ==
    /\ g' = defineStringLiteral(g, lit, ttype)
    /\ UNCHANGED <<emVars, toolVars, semVars, ruleVars, stageVars>>

\* A call of defineTokenAlias.
callDefineTokenAlias(name, lit) ==
    /\ g' = defineTokenAlias(g, name, lit)
    /\ UNCHANGED <<emVars, toolVars, semVars, ruleVars, stageVars>>

\* The call of importVocab: Tool.process and the Grammar constructor call it on the grammar as
\* constructed, before the semantic pipeline defines any token.
callImportVocab(importG) ==
    /\ g = newGrammar
    /\ g' = importVocab(g, importG)
    /\ UNCHANGED <<emVars, toolVars, semVars, ruleVars, stageVars>>

\* The token tables issue no message: the severity of WarningTreatedAsErrors plays no part.
InitTokens ==
    /\ InitErrorManager /\ wtaeSeverity = "Error"
    /\ InitToolVars /\ InitSemVars /\ InitRuleVars /\ InitTokenVars /\ InitStageVars

NextTokens ==
    \/ \E name \in TokenNames, ttype \in {undefined} \cup TokensFileTypes : callDefineTokenName(name, ttype)
    \/ \E lit \in Literals, ttype \in {undefined} \cup TokensFileTypes : callDefineStringLiteral(lit, ttype)
    \/ \E name \in TokenNames, lit \in Literals : callDefineTokenAlias(name, lit)
    \/ \E importG \in Vocabularies : callImportVocab(importG)

SpecTokens == InitTokens /\ [][NextTokens]_vars

(***************************************************************************)
(* SemanticPipeline.assignChannelTypes                                     *)
(***************************************************************************)
\* The names a channels{} block can hold: channel names, the name of a token and the name
\* of a common constant.
ChannelDefNames == ChannelNames \cup {"A", "HIDDEN"}

\* Constants.COMMON_CONSTANTS: the keys.
COMMON_CONSTANTS == {"EOF", "SKIP", "MORE", "HIDDEN", "DEFAULT_TOKEN_CHANNEL", "DEFAULT_MODE", "MAX_CHAR_VALUE", "MIN_CHAR_VALUE"}

\* Grammar.getTokenType for a name: INVALID_TYPE for a name that is no token.
getTokenType(gr, name) ==
    LET map == IF isLiteral(name) THEN gr.stringLiteralToTypeMap ELSE gr.tokenNameToTypeMap
    IN IF has(map, name) THEN valueOf(map, name) ELSE INVALID_TYPE

\* The channel definitions of the block that raise ChannelConflictsWithToken and
\* ChannelConflictsWithCommonConstants (the grammars of the model have no modes).
channelConflicts(gr, channelDefs) ==
    Cardinality({i \in 1..Len(channelDefs) : getTokenType(gr, channelDefs[i]) # INVALID_TYPE})
    + Cardinality({i \in 1..Len(channelDefs) : channelDefs[i] \in COMMON_CONSTANTS})

\* The loop of assignChannelTypes over the definitions from i on.
RECURSIVE defineChannels(_, _, _)
defineChannels(gr, channelDefs, i) ==
    IF i > Len(channelDefs)
    THEN gr
    ELSE defineChannels(defineChannelName(gr, channelDefs[i], undefined), channelDefs, i + 1)

\* The channels{} blocks of a grammar.
ChannelBlocks == UNION {[1..n -> ChannelDefNames] : n \in 0..MaxChannelDefs}

\* SemanticPipeline.assignChannelTypes on the outermost grammar g.
assignChannelTypes(channelDefs) ==
    /\ report(channelConflicts(g, channelDefs))
    /\ g' = defineChannels(g, channelDefs, 1)
    /\ UNCHANGED <<toolVars, semVars, ruleVars, stageVars>>

InitChannels ==
    /\ InitErrorManager /\ wtaeSeverity = "Error"
    /\ InitToolVars /\ InitSemVars /\ InitRuleVars /\ InitTokenVars /\ InitStageVars

NextChannels ==
    \/ \E importG \in Vocabularies : callImportVocab(importG)
    \/ \E channelDefs \in ChannelBlocks : assignChannelTypes(channelDefs)

SpecChannels == InitChannels /\ [][NextChannels]_vars

(***************************************************************************)
(* ATNOptimizer (src/unnamed/part_006)                                     *)
(***************************************************************************)
\* The ATNState objects that are entries of atn.states.
statesOf(a) == {a.states[i] : i \in 1..Len(a.states)} \ {null}

\* ATN.addState of the runtime, as the ATN factory calls it: the state gets the length of the
\* array as its number and is appended.
addState(s) ==
    /\ atn.pc = "factory"
    /\ atn.stateNumber[s] = -1
    /\ atn' = [atn EXCEPT !.states = Append(@, s), !.stateNumber[s] = Len(atn.states)]
    /\ UNCHANGED <<toolChainVars, notAtn>>

\* ATN.removeState of the runtime: the entry of the state becomes null, nothing is shifted.
removeStateFrom(a, s) == [a EXCEPT !.states = setAt(@, a.stateNumber[s], null)]

\* A removal by the ATN factory.
removeState(s) ==
    /\ atn.pc = "factory"
    /\ s \in statesOf(atn)
    /\ atn' = removeStateFrom(atn, s)
    /\ UNCHANGED <<toolChainVars, notAtn>>

\* ATNOptimizer.optimizeSets: the states it removes are the targets of the transitions it
\* merges into a set transition; removed gives them in the order of removal.
RECURSIVE optimizeSets(_, _)
optimizeSets(a, removed) ==
    IF removed = <<>>
    THEN a
    ELSE optimizeSets(removeStateFrom(a, Head(removed)), Tail(removed))

\* The loop of optimizeStates from entry i on: compressed and the state numbers so far.
RECURSIVE compress(_, _, _)
compress(a, i, compressed) ==
    IF i > Len(a.states)
    THEN [a EXCEPT !.states = compressed]
    ELSE IF a.states[i] # null
         THEN compress([a EXCEPT !.stateNumber[a.states[i]] = Len(compressed)], i + 1,
                       Append(compressed, a.states[i]))
         ELSE compress(a, i + 1, compressed)

\* optimizeStates that leaves the state numbers as they were.
optimizeStatesKeepsNumbers(a) ==
    [a EXCEPT !.states = SelectSeq(a.states, LAMBDA s : s # null)]

\* ATNOptimizer.optimizeStates
optimizeStates(a) == compress(a, 1, <<>>)

\* The sequences without repetition over a set of states.
RECURSIVE orders(_)
orders(set) ==
    IF set = {} THEN {<<>>} ELSE UNION {{<<s>> \o rest : rest \in orders(set \ {s})} : s \in set}

\* ATNOptimizer.optimize
optimize(removed) ==
    /\ atn.pc = "factory"
    /\ atn' = [optimizeStates(optimizeSets(atn, removed)) EXCEPT !.pc = "optimized"]
    /\ UNCHANGED <<toolChainVars, notAtn>>

InitOptimizer ==
    /\ InitErrorManager /\ wtaeSeverity = "Error"
    /\ InitToolVars /\ InitSemVars /\ InitRuleVars /\ InitTokenVars /\ InitStageVars

NextOptimizer ==
    \/ \E s \in StateObjects : addState(s)
    \/ \E s \in StateObjects : removeState(s)
    \/ \E set \in SUBSET statesOf(atn) : \E removed \in orders(set) : optimize(removed)

SpecOptimizer == InitOptimizer /\ [][NextOptimizer]_vars

(***************************************************************************)
(* Claims about the ATNOptimizer                                           *)
(***************************************************************************)
\* atn.states[s.stateNumber] is s for every state of the ATN, and the array has no holes.
compacted(a) ==
    /\ \A i \in 1..Len(a.states) : a.states[i] # null
    /\ \A s \in statesOf(a) :
           /\ a.stateNumber[s] \in 0..(Len(a.states) - 1)
           /\ at(a.states, a.stateNumber[s]) = s
    /\ {a.stateNumber[s] : s \in statesOf(a)} = 0..(Len(a.states) - 1)

\* The compaction keeps the states that were in the array in their relative order.
orderKept ==
    atn'.pc = "optimized" /\ atn.pc = "factory" =>
        /\ statesOf(atn') \subseteq statesOf(atn)
        /\ \A s, t \in statesOf(atn') :
               atn.stateNumber[s] < atn.stateNumber[t] => atn'.stateNumber[s] < atn'.stateNumber[t]

\* C12: after the state-compaction pass, atn.states[s.stateNumber] is s for every state s of
\* the ATN: the array has no holes and the state numbers are exactly 0..n-1, in the same
\* relative order the surviving states had before.
C12_StatesCompacted == [](atn.pc = "optimized" => compacted(atn)) /\ [][orderKept]_vars

\* An ATN that had holes before the optimizer ran and got another one from it, with states
\* left behind the holes.
C12_Witness ==
    /\ atn.pc = "optimized"
    /\ Len(atn.states) = 2
    /\ \E s \in statesOf(atn) : atn.stateNumber[s] = 1 /\ s # "s2"
    /\ Cardinality({s \in StateObjects : atn.stateNumber[s] # -1}) = 4

(***************************************************************************)
(* SerializedJavaATN.encodeIntsWith16BitWords (src/unnamed/part_009)       *)
(***************************************************************************)
\* The one-word test with 0xFFFF in place of 0x7FFF.
fitsSixteenBits(v) == v.neg \/ v.hi = 0

\* v <= 0x7FFF
fitsOneWord(v) == v.neg \/ (v.hi = 0 /\ v.lo <= \H7FFF)

\* The overflow test with > in place of >=.
doesNotFitAboveOnly(v) == ~v.neg /\ v.hi > \H7FFF

\* v >= 0x7FFF_FFFF
doesNotFit(v) == ~v.neg /\ (v.hi > \H7FFF \/ (v.hi = \H7FFF /\ v.lo = \HFFFF))

\* The loop of encodeIntsWith16BitWords from element i on (i counts from 1 here): the words
\* and the index of the element that made it throw.
RECURSIVE encodeFrom(_, _, _)
encodeFrom(data, i, data16) ==
    IF i > Len(data)
    THEN [data16 |-> data16, thrown |-> -1]
    ELSE LET v == data[i]
         IN IF v = minusOne
            THEN encodeFrom(data, i + 1, data16 \o <<\HFFFF, \HFFFF>>)
            ELSE IF fitsOneWord(v)
                 THEN encodeFrom(data, i + 1, Append(data16, v.lo))
                 ELSE IF doesNotFit(v)
                      THEN [data16 |-> <<>>, thrown |-> i - 1]
                      ELSE \* v & 0x7FFF_FFFF is v; (v >> 16) | 0x8000 and v & 0xFFFF
                           encodeFrom(data, i + 1, data16 \o <<v.hi + \H8000, v.lo>>)

\* SerializedJavaATN constructor: data = this.encodeIntsWith16BitWords(data)
encodeIntsWith16BitWords ==
    /\ serialized.pc = "serialized"
    /\ LET result == encodeFrom(serialized.data, 1, <<>>)
       IN serialized' = [serialized EXCEPT !.data16 = result.data16, !.thrown = result.thrown,
                                            !.pc = "encoded"]
    /\ UNCHANGED <<toolChainVars, notSerialized>>

InitEncoder ==
    /\ InitErrorManager /\ wtaeSeverity = "Error"
    /\ InitToolVars /\ InitSemVars /\ InitRuleVars /\ InitTokenVars
    /\ idleNotSerialized /\ InitSerialized

NextEncoder == encodeIntsWith16BitWords

SpecEncoder == InitEncoder /\ [][NextEncoder]_vars

(***************************************************************************)
(* Claims about the 16-bit encoding                                        *)
(***************************************************************************)
\* 0 <= v <= 0x7FFF_FFFF and 0 <= v <= 0x7FFF_FFFE
upToMaximum(v) == ~v.neg /\ v.hi <= \H7FFF
belowMaximum(v) == upToMaximum(v) /\ ~(v.hi = \H7FFF /\ v.lo = \HFFFF)

encoded == serialized.pc = "encoded"
dataOf == {serialized.data[i] : i \in 1..Len(serialized.data)}

notANumber == Number(TRUE, 0, 0)
RECURSIVE readWords(_, _)
readWords(words, k) ==
    IF k > Len(words)
    THEN <<>>
    ELSE IF words[k] < \H8000
         THEN <<Number(FALSE, 0, words[k])>> \o readWords(words, k + 1)
         ELSE IF k = Len(words)
              THEN <<notANumber>>
              ELSE IF words[k] = \HFFFF /\ words[k + 1] = \HFFFF
                   THEN <<minusOne>> \o readWords(words, k + 2)
                   ELSE <<Number(FALSE, words[k] - \H8000, words[k + 1])>> \o readWords(words, k + 2)

\* C30: the 16-bit word encoding is uniquely decodable: for every input sequence that is
\* accepted, reading the output as one word when the high bit is clear, as a two-word value
\* when it is set, and as -1 for the pair 0xFFFF 0xFFFF yields exactly the input sequence.
C30_UniquelyDecodable ==
    encoded /\ serialized.thrown = -1 => readWords(serialized.data16, 1) = serialized.data

\* The largest accepted value in front of -1: four words with the high bit set.
C30_Witness ==
    /\ encoded
    /\ serialized.thrown = -1
    /\ serialized.data = <<Number(FALSE, \H7FFF, \HFFFE), minusOne>>
    /\ serialized.data16 = <<\HFFFF, \HFFFE, \HFFFF, \HFFFF>>

(***************************************************************************)
(* Grammar.loadImportedGrammars, Tool.loadImportedGrammar                  *)
(***************************************************************************)
\* Map.get / Map.set of Tool.importedGrammars, kept as the set of its <<name, file>> entries.
cached(load, name) == \E entry \in load.importedGrammars : entry[1] = name
cachedFile(load, name) == (CHOOSE entry \in load.importedGrammars : entry[1] = name)[2]
cache(load, name, file) ==
    [load EXCEPT !.importedGrammars = {entry \in @ : entry[1] # name} \cup {<<name, file>>}]

\* Tool.loadImportedGrammar: the load after the call and the file of the grammar it returns,
\* null for none. A grammar found under the import name in the map is returned as it is, a
\* name without a file is an error, a file is read, parsed and put into the map under the
\* name that the grammar declares.
loadImportedGrammar(fileSystem, load, name) ==
    IF cached(load, name)
    THEN [load |-> load, file |-> cachedFile(load, name)]
    ELSE IF name \notin GrammarFiles
         THEN [load |-> [load EXCEPT !.errors = @ + 1], file |-> null]
         ELSE [load |-> cache([load EXCEPT !.reads = Append(@, name)], fileSystem[name].name, name),
               file |-> name]

\* Grammar.loadImportedGrammars on the grammar of a file, and its loop from import i on.
\* The recursion has no end exactly if a call has the file, the visited set and the map of
\* a call it is nested in (calls: these triples of the enclosing calls); it is cut there.
RECURSIVE loadImportedGrammars(_, _, _, _)
RECURSIVE loadImports(_, _, _, _, _)
loadImportedGrammars(fileSystem, file, load, calls) ==
    LET call == <<file, load.visited, load.importedGrammars>>
    IN IF fileSystem[file].imports = <<>>
       THEN load
       ELSE IF call \in calls
            THEN [load EXCEPT !.ends = FALSE]
            ELSE loadImports(fileSystem, file, 1,
                             [load EXCEPT !.visited = @ \cup {fileSystem[file].name}],
                             calls \cup {call})

loadImports(fileSystem, file, i, load, calls) ==
    IF i > Len(fileSystem[file].imports) \/ ~load.ends
    THEN load
    ELSE LET importedGrammarName == fileSystem[file].imports[i]
         IN IF importedGrammarName \in load.visited
            THEN loadImports(fileSystem, file, i + 1, load, calls)
            ELSE LET loaded == loadImportedGrammar(fileSystem, load, importedGrammarName)
                 IN IF loaded.file = null
                    THEN loadImports(fileSystem, file, i + 1, loaded.load, calls)
                    ELSE LET descent == [name |-> fileSystem[loaded.file].name,
                                         file |-> loaded.file,
                                         parent |-> file,
                                         visited |-> loaded.load.visited]
                             descended == loadImportedGrammars(fileSystem, loaded.file,
                                              [loaded.load EXCEPT !.descents = Append(@, descent)],
                                              calls)
                         IN loadImports(fileSystem, file, i + 1, descended, calls)

\* Tool.process: g.loadImportedGrammars(new Set())
processLoad ==
    /\ loading.pc = "created"
    /\ loading' = [loading EXCEPT
                       !.load = loadImportedGrammars(loading.fileSystem, loading.root, loading.load, {}),
                       !.pc = "loaded"]
    /\ UNCHANGED <<toolChainVars, notLoading>>

InitLoader ==
    /\ InitErrorManager /\ wtaeSeverity = "Error"
    /\ InitToolVars /\ InitSemVars /\ InitRuleVars /\ InitTokenVars
    /\ idleNotLoading /\ InitLoading

NextLoader == processLoad

SpecLoader == InitLoader /\ [][NextLoader]_vars

(***************************************************************************)
(* SemanticPipeline: the symbol tables of a grammar                        *)
(***************************************************************************)
\* Map.delete
delete(map, key) == SelectSeq(map, LAMBDA e : e.key # key)

\* The rules of the AST of a lexer grammar: the name, whether the rule is a fragment, whether it
\* has a type or more command, and the literal the alias patterns of
\* getStringLiteralAliasesFromLexerRules find in it (null: none). The rules of a grammar that
\* got through checkForRuleIssues have distinct names.
LexerRules ==
    [name : TokenNames, fragment : BOOLEAN, typeOrMore : BOOLEAN, lit : Literals \cup {null}]
ParserRuleNames == {"r1", "r2"}
ParserRules == [name : ParserRuleNames, fragment : {FALSE}, typeOrMore : {FALSE}, lit : {null}]
distinctNames(ruleList) ==
    \A i, j \in 1..Len(ruleList) : ruleList[i].name = ruleList[j].name => i = j
RuleLists(ruleSet) ==
    {ruleList \in UNION {[1..n -> ruleSet] : n \in 0..MaxAstRules} : distinctNames(ruleList)}

\* The lists of at most MaxAstDefs names.
NameLists(names) == UNION {[1..n -> names] : n \in 0..MaxAstDefs}

\* The tokens file a tokenVocab option names: none, or one entry.
TokensFiles ==
    {<<>>} \cup {<<[key |-> k, value |-> v]>> : k \in {"A"} \cup Literals, v \in TokensFileTypes}

\* What the collectors find in the AST of a grammar.
GrammarASTs ==
    [kind : {"lexer"}, rules : RuleLists(LexerRules), tokensDefs : NameLists({"B"}),
     tokenIDRefs : {<<>>}, terminals : {<<>>}, channelDefs : NameLists({"CH1"}),
     tokens : TokensFiles]
    \cup
    [kind : {"parser"}, rules : RuleLists(ParserRules), tokensDefs : NameLists({"B"}),
     tokenIDRefs : NameLists(TokenNames), terminals : NameLists({"'x'"}),
     channelDefs : NameLists({"CH1"}), tokens : TokensFiles]

\* Grammar.defineRule on the list of the rules of the grammar, in the order of their indexes.
RECURSIVE defineRules(_, _, _)
defineRules(table, ruleList, i) ==
    IF i > Len(ruleList)
    THEN table
    ELSE defineRules(IF \E k \in 1..Len(table) : table[k].name = ruleList[i].name
                     THEN table
                     ELSE Append(table, ruleList[i]),
                     ruleList, i + 1)

\* Grammar.importTokensFromTokensFile
RECURSIVE importTokensFromTokensFile(_, _, _)
importTokensFromTokensFile(gr, tokens, i) ==
    IF i > Len(tokens)
    THEN gr
    ELSE importTokensFromTokensFile(IF isLiteral(tokens[i].key)
                                    THEN defineStringLiteral(gr, tokens[i].key, tokens[i].value)
                                    ELSE defineTokenName(gr, tokens[i].key, tokens[i].value),
                                    tokens, i + 1)

\* The loops of assignLexerTokenTypes over the tokens{} names and over the rules of the grammar.
RECURSIVE defineTokenNames(_, _, _)
defineTokenNames(gr, names, i) ==
    IF i > Len(names)
    THEN gr
    ELSE defineTokenNames(defineTokenName(gr, names[i], undefined), names, i + 1)

tokenRules(table) == SelectSeq(table, LAMBDA r : ~r.fragment /\ ~r.typeOrMore)
namesOf(ruleList) == [i \in 1..Len(ruleList) |-> ruleList[i].name]

\* The loop of assignLexerTokenTypes over the literal aliases: the grammar and the conflicting
\* literals it leads to.
RECURSIVE defineAliases(_, _, _, _)
defineAliases(gr, litAliases, i, conflictingLiterals) ==
    IF i > Len(litAliases)
    THEN [grammar |-> gr, conflictingLiterals |-> conflictingLiterals]
    ELSE IF ~has(gr.stringLiteralToTypeMap, litAliases[i].lit)
         THEN defineAliases(defineTokenAlias(gr, litAliases[i].name, litAliases[i].lit),
                            litAliases, i + 1, conflictingLiterals)
         ELSE defineAliases(gr, litAliases, i + 1, conflictingLiterals \cup {litAliases[i].lit})

\* The loop of assignLexerTokenTypes that removes the conflicting literals.
RECURSIVE removeConflicting(_, _)
removeConflicting(gr, conflictingLiterals) ==
    IF conflictingLiterals = {}
    THEN gr
    ELSE LET lit == CHOOSE l \in conflictingLiterals : TRUE
             known == has(gr.stringLiteralToTypeMap, lit)
             value == IF known THEN valueOf(gr.stringLiteralToTypeMap, lit) ELSE undefined
             deleted == [gr EXCEPT !.stringLiteralToTypeMap = delete(@, lit)]
             cleared == IF /\ known /\ value > 0 /\ value < Len(gr.typeToStringLiteralList)
                           /\ lit = at(gr.typeToStringLiteralList, value)
                        THEN [deleted EXCEPT !.typeToStringLiteralList = setAt(@, value, null)]
                        ELSE deleted
         IN removeConflicting(cleared, conflictingLiterals \ {lit})

\* SemanticPipeline.assignLexerTokenTypes
assignLexerTokenTypes(gr, table, ast) ==
    LET defs == defineTokenNames(gr, ast.tokensDefs, 1)
        ruled == defineTokenNames(defs, namesOf(tokenRules(table)), 1)
        litAliases == SelectSeq(ast.rules, LAMBDA r : r.lit # null)
        aliased == defineAliases(ruled, litAliases, 1, {})
    IN removeConflicting(aliased.grammar, aliased.conflictingLiterals)

\* The loops of assignTokenTypes over the tokens{} names and the token references: the grammar
\* and the number of grammarError calls (TokenNameReassignment, ImplicitTokenDefinition).
RECURSIVE defineReported(_, _, _, _, _)
defineReported(gr, names, i, reportKnown, messages) ==
    IF i > Len(names)
    THEN [grammar |-> gr, messages |-> messages]
    ELSE defineReported(defineTokenName(gr, names[i], undefined), names, i + 1, reportKnown,
                        IF (getTokenType(gr, names[i]) # INVALID_TYPE) = reportKnown
                        THEN messages + 1
                        ELSE messages)

\* SemanticPipeline.assignTokenTypes
assignTokenTypes(gr, ast) ==
    LET defs == defineReported(gr, ast.tokensDefs, 1, TRUE, 0)
        ids == defineReported(defs.grammar, ast.tokenIDRefs, 1, FALSE, defs.messages)
        implicit == Cardinality({i \in 1..Len(ast.terminals) :
                                    getTokenType(ids.grammar, ast.terminals[i]) = INVALID_TYPE})
    IN [grammar |-> ids.grammar, messages |-> ids.messages + implicit]

\* SemanticPipeline.process on the grammar with the tables g. The checks and the transformation
\* before the rules are stored raise errors or not (stops); the rest is the part of the method
\* that writes the symbol tables.
processSemantic(stops) ==
    /\ semantic.runs < MaxRuns
    /\ IF stops
       THEN /\ semantic' = [semantic EXCEPT !.runs = @ + 1]
            /\ UNCHANGED g
       ELSE LET ast == semantic.ast
                table == defineRules(semantic.rules, ast.rules, 1)
                imported == importTokensFromTokensFile(g, ast.tokens, 1)
                assigned == IF ast.kind = "lexer"
                            THEN [grammar |-> assignLexerTokenTypes(imported, table, ast), messages |-> 0]
                            ELSE assignTokenTypes(imported, ast)
                conflicts == channelConflicts(assigned.grammar, ast.channelDefs)
            IN /\ g' = defineChannels(assigned.grammar, ast.channelDefs, 1)
               /\ semantic' = [semantic EXCEPT !.rules = table,
                                               !.messages = @ + assigned.messages + conflicts,
                                               !.runs = @ + 1,
                                               !.processed = TRUE]
    /\ UNCHANGED <<emVars, toolVars, semVars, ruleVars, notSemantic>>

InitSemantic ==
    \E ast \in GrammarASTs :
        semantic = [ast |-> ast, rules |-> <<>>, messages |-> 0, runs |-> 0, processed |-> FALSE]

InitPipeline ==
    /\ InitErrorManager /\ wtaeSeverity = "Error"
    /\ InitToolVars /\ InitSemVars /\ InitRuleVars /\ InitTokenVars
    /\ idleNotSemantic /\ InitSemantic

NextPipeline == \E stops \in BOOLEAN : processSemantic(stops)

SpecPipeline == InitPipeline /\ [][NextPipeline]_vars

(***************************************************************************)
(* GrammarTransformPipeline: the integration of imported grammars          *)
(***************************************************************************)
ModeNames == {"M"}
ActionScopes == {null, "parser"}
ActionNames == {"members"}
OptionValues == {"a", "b"}
GrammarTypes == {"lexer", "combined"}

\* The prequel sections, the modes and the rules a grammar file holds: the channels{} and the
\* tokens{} blocks (at most one of each) with their names, the named actions, the modes with their rules, the rules
\* outside the modes, and the value of one option (null: not set).
sizeOfModes(modes) == Len(modes) + (IF modes = <<>> THEN 0 ELSE Len(modes[1].rules))
sizeOf(file) ==
    Len(file.rules) + sizeOfModes(file.modes) + Len(file.actions)
    + Len(file.channels) + Len(file.tokens)
    + (IF file.options = null THEN 0 ELSE 1)
ruleNamesOf(file) ==
    {file.rules[i] : i \in 1..Len(file.rules)}
    \cup UNION {{file.modes[k].rules[i] : i \in 1..Len(file.modes[k].rules)} : k \in 1..Len(file.modes)}
ListsUpTo(set, n) == UNION {[1..k -> set] : k \in 0..n}
\* The files of at most MaxAstSize parts in which no rule name is declared twice.
GrammarSources ==
    {file \in [channels : {<<>>, <<<<"CH1">>>>},
               tokens : {<<>>, <<<<"B">>>>},
               actions : ListsUpTo([scope : ActionScopes, name : ActionNames], MaxAstSize),
               modes : ListsUpTo([name : ModeNames, rules : ListsUpTo(TokenNames, 1)], 1),
               rules : ListsUpTo(TokenNames, MaxAstSize),
               options : {null} \cup OptionValues] :
        /\ sizeOf(file) <= MaxAstSize
        /\ Cardinality(ruleNamesOf(file)) = Len(file.rules) + sizeOfModes(file.modes) - Len(file.modes)}

\* The files of at most n imported grammars that have at most size parts together.
SourcesOfSize == [size \in 0..MaxAstSize |-> {file \in GrammarSources : sizeOf(file) = size}]
RECURSIVE SourceLists(_, _)
SourceLists(n, size) ==
    IF n = 0
    THEN {<<>>}
    ELSE {<<>>} \cup UNION {{<<file>> \o files : file \in SourcesOfSize[first],
                                                 files \in SourceLists(n - 1, size - first)} :
                                first \in 0..size}

\* GrammarTransformPipeline.setGrammarPtr on the AST of a file: every node knows its grammar.
\* The text of an action is its body between braces; the body of the i-th action of grammar
\* grammar is written "grammar.i".
setGrammarPtr(grammar, file) ==
    [name |-> grammar,
     channels |-> file.channels,
     tokens |-> file.tokens,
     actions |-> [i \in 1..Len(file.actions) |->
                    [scope |-> file.actions[i].scope, name |-> file.actions[i].name,
                     text |-> <<"{", grammar \o "." \o ToString(i), "}">>, g |-> grammar]],
     modes |-> [k \in 1..Len(file.modes) |->
                  [name |-> file.modes[k].name, g |-> grammar,
                   rules |-> [i \in 1..Len(file.modes[k].rules) |->
                                [name |-> file.modes[k].rules[i], g |-> grammar]]]],
     rules |-> [i \in 1..Len(file.rules) |-> [name |-> file.rules[i], g |-> grammar]],
     options |-> file.options]

\* Grammar.getDefaultActionScope
getDefaultActionScope(type) == IF type = "lexer" THEN "lexer" ELSE "parser"

\* The loop that copies the channels of an import the root does not name yet.
RECURSIVE copyChannels(_, _, _)
copyChannels(channelsRoot, importedChannelRoot, c) ==
    IF c > Len(importedChannelRoot)
    THEN channelsRoot
    ELSE copyChannels(IF \E rc \in 1..Len(channelsRoot) : channelsRoot[rc] = importedChannelRoot[c]
                      THEN channelsRoot
                      ELSE Append(channelsRoot, importedChannelRoot[c]),
                      importedChannelRoot, c + 1)

\* The loop over allActionRoots: the action nodes with the texts they end with, namedActions as
\* the list of the positions of the first definitions, and the ACTION_REDEFINITION messages.
RECURSIVE collectActions(_, _, _, _, _)
collectActions(allActionRoots, i, namedActions, messages, defaultScope) ==
    IF i > Len(allActionRoots)
    THEN [allActionRoots |-> allActionRoots, namedActions |-> namedActions, messages |-> messages]
    ELSE LET atNode == allActionRoots[i]
             scopeName == IF atNode.scope # null THEN atNode.scope ELSE defaultScope
             key == <<scopeName, atNode.name>>
         IN IF ~has(namedActions, key)
            THEN collectActions(allActionRoots, i + 1, put(namedActions, key, i), messages, defaultScope)
            ELSE LET prev == valueOf(namedActions, key)
                     prevAction == allActionRoots[prev]
                 IN IF prevAction.g = atNode.g
                    THEN collectActions(allActionRoots, i + 1, namedActions,
                                        Append(messages, [code |-> "ACTION_REDEFINITION", g |-> atNode.g]),
                                        defaultScope)
                    ELSE LET s1 == SubSeq(prevAction.text, 2, Len(prevAction.text) - 1)
                             s2 == SubSeq(atNode.text, 2, Len(atNode.text) - 1)
                             combinedAction == <<"{">> \o s1 \o <<"\n">> \o s2 \o <<"}">>
                         IN collectActions([allActionRoots EXCEPT ![prev].text = combinedAction],
                                           i + 1, namedActions, messages, defaultScope)

\* The loop that puts the first definitions of the other grammars into the tree of the root, each
\* of them as child 1.
RECURSIVE insertActions(_, _, _, _, _)
insertActions(actions, allActionRoots, namedActions, k, rootGrammar) ==
    IF k > Len(namedActions)
    THEN actions
    ELSE LET action == allActionRoots[namedActions[k].value]
         IN insertActions(IF action.g # rootGrammar THEN <<action>> \o actions ELSE actions,
                          allActionRoots, namedActions, k + 1, rootGrammar)

\* The copy of the actions of one import into the tree root.
copyActions(root, imp, messages, type) ==
    LET actionRoots == SelectSeq(root.actions, LAMBDA atNode : atNode.g = root.name)
        collected == collectActions(actionRoots \o imp.actions, 1, <<>>, messages,
                                    getDefaultActionScope(type))
        merged == [i \in 1..Len(root.actions) |->
                     IF root.actions[i].g = root.name
                     THEN collected.allActionRoots[
                              Cardinality({j \in 1..i : root.actions[j].g = root.name})]
                     ELSE root.actions[i]]
    IN [actions |-> insertActions(merged, collected.allActionRoots, collected.namedActions, 1, root.name),
        messages |-> collected.messages]

\* The loop over the rules of one imported mode: the rules added to the destination, and the
\* names of the rules of the root.
RECURSIVE copyModeRules(_, _, _, _)
copyModeRules(modeRules, i, added, rootRuleNames) ==
    IF i > Len(modeRules)
    THEN [added |-> added, rootRuleNames |-> rootRuleNames]
    ELSE IF modeRules[i].name \notin rootRuleNames
         THEN copyModeRules(modeRules, i + 1, Append(added, modeRules[i]),
                            rootRuleNames \cup {modeRules[i].name})
         ELSE copyModeRules(modeRules, i + 1, added, rootRuleNames)

\* The loop over the modes of one import: the modes of the root, and the names of its rules.
RECURSIVE copyModes(_, _, _, _)
copyModes(modes, k, rootModes, rootRuleNames) ==
    IF k > Len(modes)
    THEN [rootModes |-> rootModes, rootRuleNames |-> rootRuleNames]
    ELSE LET m == modes[k]
             rootAlreadyHasMode == \E d \in 1..Len(rootModes) : rootModes[d].name = m.name
             copied == copyModeRules(m.rules, 1, <<>>, rootRuleNames)
             addedRules == Len(copied.added)
         IN IF rootAlreadyHasMode
            THEN LET destinationAST == CHOOSE d \in 1..Len(rootModes) :
                                           /\ rootModes[d].name = m.name
                                           /\ \A e \in 1..(d - 1) : rootModes[e].name # m.name
                 IN copyModes(modes, k + 1,
                              [rootModes EXCEPT ![destinationAST].rules = @ \o copied.added],
                              copied.rootRuleNames)
            ELSE copyModes(modes, k + 1,
                           IF addedRules > 0
                           THEN Append(rootModes, [name |-> m.name, g |-> m.g, rules |-> copied.added])
                           ELSE rootModes,
                           copied.rootRuleNames)

\* imp.ast.getNodesWithType(RULE): the rules of the import, those of its modes too.
RECURSIVE rulesOfModes(_, _)
rulesOfModes(modes, k) ==
    IF k > Len(modes) THEN <<>> ELSE modes[k].rules \o rulesOfModes(modes, k + 1)
allRules(ast) == ast.rules \o rulesOfModes(ast.modes, 1)

\* The loop over the rules of one import: the rules of the root outside the modes, and the
\* names of its rules.
RECURSIVE copyRules(_, _, _, _)
copyRules(importedRules, i, rootRules, rootRuleNames) ==
    IF i > Len(importedRules)
    THEN [rootRules |-> rootRules, rootRuleNames |-> rootRuleNames]
    ELSE IF importedRules[i].name \notin rootRuleNames
         THEN copyRules(importedRules, i + 1, Append(rootRules, importedRules[i]),
                        rootRuleNames \cup {importedRules[i].name})
         ELSE copyRules(importedRules, i + 1, rootRules, rootRuleNames)

\* The body of the loop of integrateImportedGrammars over the imports, from import i on.
RECURSIVE integrateFrom(_, _, _, _, _, _)
integrateFrom(root, imports, i, rootRuleNames, messages, type) ==
    IF i > Len(imports)
    THEN [root |-> root, messages |-> messages]
    ELSE LET imp == imports[i]
             channelsRoot == IF imp.channels = <<>>
                             THEN root.channels
                             ELSE IF root.channels = <<>>
                                  THEN <<imp.channels[1]>>
                                  ELSE <<copyChannels(root.channels[1], imp.channels[1], 1)>>
             tokensRoot == IF imp.tokens = <<>>
                           THEN root.tokens
                           ELSE <<(IF root.tokens = <<>> THEN <<>> ELSE root.tokens[1]) \o imp.tokens[1]>>
             actions == copyActions(root, imp, messages, type)
             modes == copyModes(imp.modes, 1, root.modes, rootRuleNames)
             copied == copyRules(allRules(imp), 1, root.rules, modes.rootRuleNames)
             hasNewOption == imp.options # null /\ imp.options # root.options
         IN integrateFrom([root EXCEPT !.channels = channelsRoot,
                                       !.tokens = tokensRoot,
                                       !.actions = actions.actions,
                                       !.modes = modes.rootModes,
                                       !.rules = copied.rootRules],
                          imports, i + 1, copied.rootRuleNames,
                          IF hasNewOption
                          THEN Append(actions.messages, [code |-> "OPTIONS_IN_DELEGATE", g |-> imp.name])
                          ELSE actions.messages,
                          type)

\* GrammarTransformPipeline.integrateImportedGrammars
integrateImportedGrammars ==
    /\ integration.pc = "loaded"
    /\ LET root == integration.root
           rootRuleNames == {root.rules[i].name : i \in 1..Len(root.rules)}
           integrated == integrateFrom(root, integration.imports, 1, rootRuleNames, <<>>,
                                       integration.type)
       IN integration' = [integration EXCEPT !.pc = "integrated",
                                             !.root = integrated.root,
                                             !.messages = integrated.messages]
    /\ UNCHANGED <<toolChainVars, notIntegration>>

\* The names of the imported grammars, in the order of getAllImportedGrammars.
importName(i) == "I" \o ToString(i)

InitIntegration ==
    \E files \in SourceLists(MaxMerged, MaxAstSize), type \in GrammarTypes, file \in GrammarSources :
        integration = [pc |-> "loaded",
                       type |-> type,
                       parsed |-> setGrammarPtr("R", file),
                       root |-> setGrammarPtr("R", file),
                       imports |-> [i \in 1..Len(files) |-> setGrammarPtr(importName(i), files[i])],
                       messages |-> <<>>]

InitImports ==
    /\ InitErrorManager /\ wtaeSeverity = "Error"
    /\ InitToolVars /\ InitSemVars /\ InitRuleVars /\ InitTokenVars
    /\ idleNotIntegration /\ InitIntegration

NextImports == integrateImportedGrammars

SpecImports == InitImports /\ [][NextImports]_vars

(***************************************************************************)
(* GrammarTransformPipeline: the extraction of the implicit lexer          *)
(***************************************************************************)
\* Grammar.parserOptions, which is Grammar.lexerOptions too, and doNotCopyOptionsToLexer.
lexerOptions ==
    {"superClass", "contextSuperClass", "TokenLabelType", "tokenVocab", "language", "accessLevel",
     "exportMacro", "caseInsensitive"}
doNotCopyOptionsToLexer == {"superClass", "TokenLabelType", "tokenVocab"}

\* isTokenName: the first character of the name is an upper case letter.
isTokenName(name) == name \in TokenNames

\* The rules of a combined grammar: a lexer rule with the literal the alias patterns find in it
\* (null: none), or the parser rule with the string literals it refers to.
CombinedParserRuleNames == {"r1"}
CombinedRules ==
    [name : TokenNames, lit : Literals \cup {null}, literals : {<<>>}]
    \cup [name : CombinedParserRuleNames, lit : {null}, literals : ListsUpTo(Literals, MaxAstSize)]
CombinedOptions == {<<>>, <<"language">>, <<"superClass">>, <<"language", "tokenVocab">>}
CombinedActions ==
    ListsUpTo({[scope |-> null, name |-> "members"], [scope |-> "lexer", name |-> "members"]}, 1)
\* The combined grammars whose rules have distinct names; the AST of a grammar has a RULES node.
CombinedRuleLists == RuleLists(CombinedRules)
CombinedASTs ==
    [name : {"C"}, options : CombinedOptions, actions : CombinedActions, rules : CombinedRuleLists]

\* Grammar.getStringLiteralAliasesFromLexerRules: <<>> (null) without a rule, or the list of the
\* pairs of the rule names and their literals.
getStringLiteralAliasesFromLexerRules(ast) ==
    IF Len(ast.rules) = 0
    THEN <<>>
    ELSE <<SelectSeq(ast.rules, LAMBDA r : isTokenName(r.name) /\ r.lit # null)>>

\* Grammar.getStringLiterals: the literals the rules of the AST refer to, each once, in the order
\* of the tree.
RECURSIVE getStringLiterals(_, _, _)
getStringLiterals(ruleList, i, strings) ==
    IF i > Len(ruleList)
    THEN strings
    ELSE LET RECURSIVE add(_, _)
             add(found, k) ==
                 IF k > Len(ruleList[i].literals)
                 THEN found
                 ELSE add(IF \E p \in 1..Len(found) : found[p] = ruleList[i].literals[k]
                          THEN found
                          ELSE Append(found, ruleList[i].literals[k]),
                          k + 1)
         IN getStringLiterals(ruleList, i + 1, add(strings, 1))

\* The test that skips every literal: no rule is generated.
hasAliasAlways(litAliases, lit) == TRUE

\* The test of the loop over the literals: the lexer already has a rule for the literal.
hasAlias(litAliases, lit) ==
    /\ litAliases # <<>>
    /\ \E p \in 1..Len(litAliases[1]) : litAliases[1][p].lit = lit

\* Grammar.AUTO_GENERATED_TOKEN_NAME_PREFIX
AUTO_GENERATED_TOKEN_NAME_PREFIX == "T__"

\* The name of a generated rule when the counter of the grammar is left as it is.
getStringLiteralLexerRuleNameNoIncrement(stringLiteralRuleNumber) ==
    [name |-> AUTO_GENERATED_TOKEN_NAME_PREFIX \o ToString(stringLiteralRuleNumber),
     stringLiteralRuleNumber |-> stringLiteralRuleNumber]

\* Grammar.getStringLiteralLexerRuleName: the name that is returned and the counter of the
\* grammar after the call.
getStringLiteralLexerRuleName(stringLiteralRuleNumber) ==
    [name |-> AUTO_GENERATED_TOKEN_NAME_PREFIX \o ToString(stringLiteralRuleNumber),
     stringLiteralRuleNumber |-> stringLiteralRuleNumber + 1]

\* The loop of extractImplicitLexer over the literals: the generated rules, in the order of
\* their insertion, and the number of the next generated name.
RECURSIVE generateRules(_, _, _, _, _)
generateRules(stringLiterals, i, litAliases, generated, stringLiteralRuleNumber) ==
    IF i > Len(stringLiterals)
    THEN [rules |-> generated, stringLiteralRuleNumber |-> stringLiteralRuleNumber]
    ELSE IF hasAlias(litAliases, stringLiterals[i])
         THEN generateRules(stringLiterals, i + 1, litAliases, generated, stringLiteralRuleNumber)
         ELSE LET generatedName == getStringLiteralLexerRuleName(stringLiteralRuleNumber)
              IN generateRules(stringLiterals, i + 1, litAliases,
                               Append(generated, [name |-> generatedName.name,
                                                  lit |-> stringLiterals[i], literals |-> <<>>]),
                               generatedName.stringLiteralRuleNumber)

\* The end of extractImplicitLexer when it returns the AST whatever its rules are.
returnedAlways(lexerAST) == <<lexerAST>>

\* The end of extractImplicitLexer: no AST for a lexer without rules.
returned(lexerAST) == IF Len(lexerAST.rules) = 0 THEN <<>> ELSE <<lexerAST>>

\* GrammarTransformPipeline.extractImplicitLexer as Tool.process calls it for a combined grammar:
\* the lexer AST that is built, what is returned (<<>>: undefined), the combined AST that is
\* left, and whether the grammar gets an implicit lexer.
extractImplicitLexer ==
    /\ extraction.pc = "combined"
    /\ LET combinedContext == extraction.ast
           copied == SelectSeq(combinedContext.options,
                               LAMBDA o : o \in lexerOptions /\ o \notin doNotCopyOptionsToLexer)
           moved == SelectSeq(combinedContext.rules, LAMBDA r : isTokenName(r.name))
           left == SelectSeq(combinedContext.rules, LAMBDA r : ~isTokenName(r.name))
           litAliases == getStringLiteralAliasesFromLexerRules([rules |-> moved])
           stringLiterals == getStringLiterals(left, 1, <<>>)
           generated == generateRules(stringLiterals, 1, litAliases, <<>>,
                                      extraction.stringLiteralRuleNumber)
           lexerAST == [name |-> combinedContext.name \o "Lexer",
                        options |-> copied,
                        actions |-> combinedContext.actions,
                        rules |-> generated.rules \o moved]
       IN extraction' =
              [extraction EXCEPT
                  !.pc = "extracted",
                  !.ast = [combinedContext EXCEPT
                              !.actions = SelectSeq(@, LAMBDA e :
                                              (IF e.scope # null THEN e.scope ELSE e.name) # "lexer"),
                              !.rules = left],
                  !.lexerAST = lexerAST,
                  !.returned = returned(lexerAST),
                  !.implicitLexer = returned(lexerAST) # <<>>,
                  !.stringLiteralRuleNumber = generated.stringLiteralRuleNumber]
    /\ UNCHANGED <<toolChainVars, notExtraction>>

InitExtraction ==
    \E ast \in CombinedASTs :
        extraction = [pc |-> "combined", parsed |-> ast, ast |-> ast, lexerAST |-> null,
                      returned |-> <<>>, implicitLexer |-> FALSE, stringLiteralRuleNumber |-> 0]

InitExtractor ==
    /\ InitErrorManager /\ wtaeSeverity = "Error"
    /\ InitToolVars /\ InitSemVars /\ InitRuleVars /\ InitTokenVars
    /\ idleNotExtraction /\ InitExtraction

NextExtractor == extractImplicitLexer

SpecExtractor == InitExtractor /\ [][NextExtractor]_vars

(***************************************************************************)
(* SymbolChecks: the mode conflicts and the unreachable tokens of a lexer  *)
(***************************************************************************)
\* The names of the modes of a lexer grammar: the default mode, a name of its own, the name of
\* a rule, and two of the common constants.
LexerModeNames == {"DEFAULT_MODE", "M", "A", "HIDDEN", "EOF"}

\* text.substring(1, text.length - 1) of a string literal
unquoted(text) == IF text = "'x'" THEN "x" ELSE "y"

\* An alternative of a lexer rule: the string literal it consists of (null: it holds another
\* element), the number of its lexer commands, and the token start index of its nodes (-1 for
\* the nodes extractImplicitLexer creates).
WrittenAlternatives ==
    [text : {"'x'"}, commands : 0..MaxCommands, startIndex : {0}]
    \cup [text : {"'y'", null}, commands : {0}, startIndex : {0}]
GeneratedAlternatives == [text : Literals, commands : {0}, startIndex : {-1}]

\* The literal the alias patterns of getStringLiteralAliasesFromLexerRules find in a rule: the
\* patterns match one alternative of one string literal with at most two commands.
aliasOf(alts) ==
    IF Len(alts) = 1 /\ alts[1].text # null /\ alts[1].commands <= 2 THEN alts[1].text ELSE null

\* The rules of a lexer grammar: written by the user, or generated for a literal of a combined
\* grammar.
WrittenRules(altLists) ==
    {[name |-> n, fragment |-> f, typeOrMore |-> FALSE, lit |-> aliasOf(alts), alts |-> alts] :
        n \in TokenNames, f \in BOOLEAN, alts \in altLists}
GeneratedRules ==
    {[name |-> "T__0", fragment |-> FALSE, typeOrMore |-> FALSE, lit |-> a.text, alts |-> <<a>>] :
        a \in GeneratedAlternatives}

\* LexerGrammar.modes as a list of the modes in the order of their first rule, each with its
\* rules in the order of their definition.
rulesOfLexer(modes) ==
    IF modes = <<>> THEN <<>>
    ELSE LET RECURSIVE flat(_)
             flat(k) == IF k > Len(modes) THEN <<>> ELSE modes[k].rules \o flat(k + 1)
         IN flat(1)
\* LexerGrammar.modes for the rules of a grammar and the mode each of them is written in.
modesOf(ruleList, modeOf) ==
    LET inOrder(indexes) ==
            CHOOSE f \in [1..Cardinality(indexes) -> indexes] :
                \A p, q \in 1..Cardinality(indexes) : p < q => f[p] < f[q]
        first == inOrder({i \in 1..Len(ruleList) : \A j \in 1..(i - 1) : modeOf[j] # modeOf[i]})
        inMode(k) == inOrder({i \in 1..Len(ruleList) : modeOf[i] = modeOf[first[k]]})
    IN [k \in 1..Len(first) |->
           [name |-> modeOf[first[k]],
            rules |-> [p \in 1..Len(inMode(k)) |-> ruleList[inMode(k)[p]]]]]
LexerModes(modeNames, ruleLists) ==
    UNION {{modesOf(ruleList, modeOf) :
               modeOf \in {f \in [1..Len(ruleList) -> modeNames] :
                              Cardinality({f[i] : i \in 1..Len(ruleList)}) <= MaxModes}} :
              ruleList \in ruleLists \ {<<>>}}

\* The part of SemanticPipeline.process before the two checks: the token types of the lexer
\* grammar are assigned.
assignSymbolTypes ==
    /\ symbols.pc = "collected"
    /\ LET ruleList == rulesOfLexer(symbols.modes)
       IN g' = assignLexerTokenTypes(g, ruleList, [rules |-> ruleList, tokensDefs |-> symbols.tokensDefs])
    /\ symbols' = [symbols EXCEPT !.pc = "assigned"]
    /\ UNCHANGED <<emVars, toolVars, semVars, ruleVars, notSymbols>>

\* The second test of checkForModeConflicts when it never finds a token.
modeConflictsWithTokenNever(gr, modeName) == FALSE

\* The two tests of checkForModeConflicts.
modeConflictsWithCommonConstants(modeName) ==
    modeName # "DEFAULT_MODE" /\ modeName \in COMMON_CONSTANTS
modeConflictsWithToken(gr, modeName) == getTokenType(gr, modeName) # INVALID_TYPE

\* The loop of checkForModeConflicts over the keys of lexerGrammar.modes: the grammarError
\* calls with their issue code and their argument.
RECURSIVE modeConflicts(_, _, _, _)
modeConflicts(gr, modes, k, messages) ==
    IF k > Len(modes)
    THEN messages
    ELSE LET modeName == modes[k].name
             constant == IF modeConflictsWithCommonConstants(modeName)
                         THEN Append(messages, [code |-> "ModeConflictsWithCommonConstants",
                                                arg |-> modeName])
                         ELSE messages
             token == IF modeConflictsWithToken(gr, modeName)
                      THEN Append(constant, [code |-> "ModeConflictsWithToken", arg |-> modeName])
                      ELSE constant
         IN modeConflicts(gr, modes, k + 1, token)

\* SymbolChecks.checkForModeConflicts on a lexer grammar
checkForModeConflicts ==
    /\ symbols.pc = "assigned"
    /\ symbols' = [symbols EXCEPT !.pc = "modesChecked",
                                  !.messages = modeConflicts(g, symbols.modes, 1, @)]
    /\ UNCHANGED <<toolChainVars, notSymbols>>

\* SymbolChecks.getSingleTokenValues: the strings of the alternatives that hold only string
\* literals. With one command the inner alternative is looked at; with two or more the node
\* that is looked at is the LEXER_ALT_ACTION node, whose first child is no terminal.
RECURSIVE getSingleTokenValues(_, _)
getSingleTokenValues(alts, i) ==
    IF i > Len(alts)
    THEN <<>>
    ELSE LET alt == alts[i]
             ignore == alt.commands >= 2 \/ alt.text = null
         IN IF alt.startIndex = -1 \/ ignore
            THEN getSingleTokenValues(alts, i + 1)
            ELSE <<unquoted(alt.text)>> \o getSingleTokenValues(alts, i + 1)

\* SymbolChecks.checkForOverlap: the grammarError calls with the rule the message is put on
\* (rule2), the string and the rule that is said to overlap it (rule1).
checkForOverlap(rule1, rule2, firstTokenStringValues, secondTokenStringValues) ==
    LET RECURSIVE inner(_, _)
        inner(i, j) ==
            IF j > Len(secondTokenStringValues)
            THEN <<>>
            ELSE (IF firstTokenStringValues[i] = secondTokenStringValues[j]
                  THEN <<[code |-> "TokenUnreachable", rule |-> rule2.name,
                          value |-> secondTokenStringValues[j], by |-> rule1.name]>>
                  ELSE <<>>) \o inner(i, j + 1)
        RECURSIVE outer(_)
        outer(i) ==
            IF i > Len(firstTokenStringValues)
            THEN <<>>
            ELSE inner(i, IF rule1.name = rule2.name THEN i + 1 ELSE 1) \o outer(i + 1)
    IN outer(1)

\* The body of the loop of checkForUnreachableTokens for the rules of one mode.
unreachableOfMode(modeRules) ==
    LET stringLiteralRules == SelectSeq(modeRules, LAMBDA r : Len(getSingleTokenValues(r.alts, 1)) > 0)
        values(i) == getSingleTokenValues(stringLiteralRules[i].alts, 1)
        RECURSIVE others(_, _)
        others(i, j) ==
            IF j > Len(stringLiteralRules)
            THEN <<>>
            ELSE (IF ~stringLiteralRules[j].fragment
                  THEN checkForOverlap(stringLiteralRules[i], stringLiteralRules[j], values(i), values(j))
                  ELSE <<>>) \o others(i, j + 1)
        RECURSIVE each(_)
        each(i) ==
            IF i > Len(stringLiteralRules)
            THEN <<>>
            ELSE checkForOverlap(stringLiteralRules[i], stringLiteralRules[i], values(i), values(i))
                 \o (IF ~stringLiteralRules[i].fragment THEN others(i, i + 1) ELSE <<>>)
                 \o each(i + 1)
    IN each(1)

\* SymbolChecks.checkForUnreachableTokens on a lexer grammar
checkForUnreachableTokens ==
    /\ symbols.pc = "modesChecked"
    /\ LET RECURSIVE ofModes(_)
           ofModes(k) ==
               IF k > Len(symbols.modes)
               THEN <<>>
               ELSE unreachableOfMode(symbols.modes[k].rules) \o ofModes(k + 1)
       IN symbols' = [symbols EXCEPT !.pc = "checked", !.messages = @ \o ofModes(1)]
    /\ UNCHANGED <<toolChainVars, notSymbols>>

NextSymbols == assignSymbolTypes \/ checkForModeConflicts \/ checkForUnreachableTokens

\* The lexer grammars whose modes are looked at: every rule is one alternative that is no
\* string literal.
InitModes ==
    \E modes \in LexerModes(LexerModeNames,
                            RuleLists(WrittenRules({<<[text |-> null, commands |-> 0, startIndex |-> 0]>>}))),
       tokensDefs \in NameLists({"B"}) :
        symbols = [pc |-> "collected", modes |-> modes, tokensDefs |-> tokensDefs, messages |-> <<>>]

InitModeChecks ==
    /\ InitErrorManager /\ wtaeSeverity = "Error"
    /\ InitToolVars /\ InitSemVars /\ InitRuleVars /\ InitTokenVars
    /\ idleNotSymbols /\ InitModes

SpecModes == InitModeChecks /\ [][NextSymbols]_vars

\* The lexer grammars whose alternatives are looked at: written lexer grammars, and implicit
\* lexers, whose generated rules come first in the default mode.
UnreachableRuleLists(altLists) ==
    {ruleList \in RuleLists(WrittenRules(altLists) \cup GeneratedRules) :
        \* a rule is generated only for a literal that no written rule is an alias of, and the
        \* generated rules come first
        /\ \A i, j \in 1..Len(ruleList) :
               ruleList[i].name = "T__0" => i = 1 /\ (i # j => ruleList[j].lit # ruleList[i].lit)
        \* the written rules are named in the order of their definition and have at most
        \* MaxAlts + 1 alternatives together
        /\ \A i, j \in 1..Len(ruleList) :
               (i < j /\ ruleList[i].name \in TokenNames) => ruleList[i].name = "A"
        /\ \A i, j \in 1..Len(ruleList) :
               i # j => Len(ruleList[i].alts) + Len(ruleList[j].alts) <= MaxAlts + 1}
InitUnreachable ==
    \E modes \in LexerModes({"DEFAULT_MODE", "M"},
                            UnreachableRuleLists(UNION {[1..n -> WrittenAlternatives] : n \in 1..MaxAlts})) :
        /\ \A i \in 1..Len(modes[1].rules) :
               modes[1].rules[i].name = "T__0" => modes[1].name = "DEFAULT_MODE"
        /\ symbols = [pc |-> "collected", modes |-> modes, tokensDefs |-> <<>>, messages |-> <<>>]

InitUnreachableChecks ==
    /\ InitErrorManager /\ wtaeSeverity = "Error"
    /\ InitToolVars /\ InitSemVars /\ InitRuleVars /\ InitTokenVars
    /\ idleNotSymbols /\ InitUnreachable

SpecUnreachable == InitUnreachableChecks /\ [][NextSymbols]_vars

(***************************************************************************)
(* CodeGenPipeline (src/src/codegen/CodeGenPipeline.ts)                    *)
(***************************************************************************)
\* The files of a run: the recognizer, the listener and the visitor with their base classes,
\* each as a header or not, and the token vocabulary file.
OutputFiles ==
    [file : {"Recognizer", "Listener", "BaseListener", "Visitor", "BaseVisitor"}, header : BOOLEAN]
vocabFile == [file |-> "Vocab", header |-> FALSE]
noFile == [file |-> "none", header |-> FALSE]

\* The generate calls of CodeGenPipeline.process in program order, each named by the file its
\* template is for.
templates(c) ==
    LET header(file) == IF c.needsHeader THEN <<[file |-> file, header |-> TRUE]>> ELSE <<>>
        plain(file) == <<[file |-> file, header |-> FALSE]>>
    IN IF c.isLexer
       THEN header("Recognizer") \o plain("Recognizer")
       ELSE header("Recognizer") \o plain("Recognizer")
            \o (IF c.generateListener
                THEN header("Listener") \o plain("Listener") \o header("BaseListener")
                     \o (IF c.wantsBaseListener THEN plain("BaseListener") ELSE <<>>)
                ELSE <<>>)
            \o (IF c.generateVisitor
                THEN header("Visitor") \o plain("Visitor") \o header("BaseVisitor")
                     \o (IF c.wantsBaseVisitor THEN plain("BaseVisitor") ELSE <<>>)
                ELSE <<>>)

\* target.genFile, which ends in CodeGenerator.write: the file is written, or the write throws
\* and CannotWriteFile is reported.
genFile(s, file, fails) ==
    IF fails
    THEN [s EXCEPT !.errors = @ + 1]
    ELSE [s EXCEPT !.written = Append(@, [file |-> file, errors |-> s.errors])]

\* The test before every write when it lets every write through.
sameErrorCountAlways(count, errorCount) == TRUE

\* this.g.tool.errorManager.errors === errorCount
sameErrorCount(count, errorCount) == count = errorCount

\* The generate calls and the writes of CodeGenPipeline.process: the generation of one template
\* reports errors (raisedAt), the write of one file fails (failsAt).
RECURSIVE generateAndWrite(_, _, _, _, _, _, _)
generateAndWrite(files, i, errorCount, s, raisedAt, reported, failsAt) ==
    IF i > Len(files)
    THEN s
    ELSE LET generated == IF raisedAt = files[i] THEN [s EXCEPT !.errors = @ + reported] ELSE s
             done == IF sameErrorCount(generated.errors, errorCount)
                     THEN genFile(generated, files[i], failsAt = files[i])
                     ELSE generated
         IN generateAndWrite(files, i + 1, errorCount, done, raisedAt, reported, failsAt)

\* CodeGenPipeline.process, with CodeGenerator.writeVocabFile as its last statement.
processCodeGen(raisedAt, reported, failsAt) ==
    /\ codegen.pc = "created"
    /\ LET errorCount == errors
           files == templates(codegen)
           generated == generateAndWrite(files, 1, errorCount, [errors |-> errors, written |-> <<>>],
                                         raisedAt, reported, failsAt)
           done == genFile(generated, vocabFile, failsAt = vocabFile)
       IN /\ errors' = done.errors
          /\ codegen' = [codegen EXCEPT !.pc = "generated", !.errorCount = errorCount,
                                        !.written = done.written]
    /\ UNCHANGED <<warnings, errorTypes, listeners, warningsAreErrors, wtaeSeverity, lastCall>>
    /\ UNCHANGED <<toolVars, semVars, ruleVars, tokenVars, notCodegen>>

\* The pipeline is entered with the error count of the run so far, for a lexer or a parser and
\* any target and options.
InitCodegen ==
    /\ errors \in 0..MaxRaise
    /\ warnings = 0
    /\ errorTypes = IF errors = 0 THEN {} ELSE {"E"}
    /\ listeners = <<>>
    /\ warningsAreErrors = FALSE
    /\ wtaeSeverity = "Error"
    /\ lastCall = <<>>
    /\ \E c \in [isLexer : BOOLEAN, needsHeader : BOOLEAN, wantsBaseListener : BOOLEAN,
                 wantsBaseVisitor : BOOLEAN, generateListener : BOOLEAN, generateVisitor : BOOLEAN] :
           codegen = [pc |-> "created", isLexer |-> c.isLexer, needsHeader |-> c.needsHeader,
                      wantsBaseListener |-> c.wantsBaseListener,
                      wantsBaseVisitor |-> c.wantsBaseVisitor,
                      generateListener |-> c.generateListener,
                      generateVisitor |-> c.generateVisitor,
                      errorCount |-> 0, written |-> <<>>]

InitCodeGenPipeline ==
    /\ InitToolVars /\ InitSemVars /\ InitRuleVars /\ InitTokenVars
    /\ idleNotCodegen /\ InitCodegen

NextCodeGenPipeline ==
    \E raisedAt \in OutputFiles \cup {noFile}, reported \in 1..MaxRaise,
       failsAt \in OutputFiles \cup {vocabFile, noFile} :
        processCodeGen(raisedAt, reported, failsAt)

SpecCodeGenPipeline == InitCodeGenPipeline /\ [][NextCodeGenPipeline]_vars

(***************************************************************************)
(* TreeParser (src/src/tree/TreeParser.ts)                                 *)
(***************************************************************************)
\* Constants.DOWN and Constants.UP, and the types of the nodes of a tree.
DOWN == 2
UP == 3
NodeTypes == {4, 5}

\* The node streams: a list of nodes, one of which may have a child.
TreeNodeStreams ==
    {<<>>, <<4>>, <<4, 5>>, <<4, DOWN, 5, UP>>, <<4, DOWN, 5, UP, 5>>, <<5, 4, DOWN, 5, 5, UP>>}

\* input.LA(1): the type of the node at the position, EOF behind the last one.
LA1(tp) == IF tp.p <= Len(tp.input) THEN tp.input[tp.p] ELSE EOF
\* input.consume(): the position moves on unless the stream is at its end.
consume(tp) == IF tp.p <= Len(tp.input) THEN [tp EXCEPT !.p = @ + 1] ELSE tp
\* getChildCount(input.LT(1)) === 0: the node is not followed by DOWN.
isLeaf(tp) == ~(tp.p + 1 <= Len(tp.input) /\ tp.input[tp.p + 1] = DOWN)

\* The loop of matchAny: consume up to the UP node that closes the subtree.
RECURSIVE skipSubtree(_, _)
skipSubtree(tp, level) ==
    IF LA1(tp) = EOF \/ (LA1(tp) = UP /\ level = 0)
    THEN tp
    ELSE LET moved == consume(tp)
         IN skipSubtree(moved, IF LA1(moved) = DOWN THEN level + 1
                               ELSE IF LA1(moved) = UP THEN level - 1 ELSE level)

\* TreeParser.matchAny
matchAny ==
    /\ LET reset == [treeParser EXCEPT !.errorRecovery = FALSE, !.failed = FALSE,
                                       !.call = "matchAny", !.matched = TRUE, !.thrown = FALSE,
                                       !.reported = FALSE]
       IN treeParser' = IF isLeaf(reset)
                        THEN consume(reset)
                        ELSE consume(skipSubtree(reset, 0))
    /\ UNCHANGED <<toolChainVars, notTreeParser>>

\* TreeParser.match
match(ttype) ==
    /\ LET called == [treeParser EXCEPT !.failed = FALSE, !.call = "match", !.matched = FALSE,
                                        !.thrown = FALSE, !.reported = FALSE]
       IN treeParser' =
              IF LA1(called) = ttype
              THEN [consume(called) EXCEPT !.errorRecovery = FALSE, !.matched = TRUE]
              ELSE IF called.backtracking > 0
                   THEN [called EXCEPT !.failed = TRUE]
                   ELSE [called EXCEPT !.thrown = TRUE]
    /\ UNCHANGED <<toolChainVars, notTreeParser>>

\* The test at the head of reportError when it is never in recovery.
inRecoveryNever(tp) == FALSE

\* if (this.state.errorRecovery) return;
inRecovery(tp) == tp.errorRecovery

\* TreeParser.reportError: toolError(INTERNAL_ERROR, e) goes through ErrorManager.emit.
reportError ==
    /\ treeParser.syntaxErrors < MaxSyntaxErrors
    /\ LET called == [treeParser EXCEPT !.call = "reportError", !.matched = FALSE, !.thrown = FALSE,
                                        !.reported = FALSE]
       IN IF inRecovery(treeParser)
          THEN /\ treeParser' = called
               /\ UNCHANGED emVars
          ELSE /\ treeParser' = [called EXCEPT !.syntaxErrors = @ + 1, !.errorRecovery = TRUE,
                                               !.reported = TRUE]
               /\ LET s == emit(emState, ANTLRMessage("E", 0))
                  IN /\ errors' = s.errors
                     /\ warnings' = s.warnings
                     /\ errorTypes' = s.errorTypes
                     /\ lastCall' = s.trace
               /\ UNCHANGED <<listeners, warningsAreErrors, wtaeSeverity>>
    /\ UNCHANGED <<toolVars, semVars, ruleVars, tokenVars, notTreeParser>>

\* TreeParser.setBacktrackingLevel
setBacktrackingLevel(n) ==
    /\ treeParser.backtracking # n
    /\ treeParser' = [treeParser EXCEPT !.backtracking = n, !.call = "setBacktrackingLevel",
                                        !.matched = FALSE, !.thrown = FALSE, !.reported = FALSE]
    /\ UNCHANGED <<toolChainVars, notTreeParser>>

\* new TreeParser(errorManager, input): createRecognizerSharedState()
InitTreeParserState ==
    \E input \in TreeNodeStreams :
        treeParser = [input |-> input, p |-> 1, errorRecovery |-> FALSE, failed |-> FALSE,
                      backtracking |-> 0, syntaxErrors |-> 0, call |-> "new", matched |-> FALSE,
                      thrown |-> FALSE, reported |-> FALSE]

InitTreeParser ==
    /\ InitErrorManager /\ wtaeSeverity = "Error"
    /\ InitToolVars /\ InitSemVars /\ InitRuleVars /\ InitTokenVars
    /\ idleNotTreeParser /\ InitTreeParserState

NextTreeParser ==
    \/ matchAny
    \/ \E ttype \in NodeTypes \cup {DOWN, UP, EOF} : match(ttype)
    \/ reportError
    \/ \E n \in 0..MaxBacktracking : setBacktrackingLevel(n)

SpecTreeParser == InitTreeParser /\ [][NextTreeParser]_vars

codeGenerated == codegen.pc = "generated" /\ codegen.written # <<>>
writtenAfterError ==
    {codegen.written[i].file : i \in {k \in 1..Len(codegen.written) :
                                         codegen.written[k].errors # codegen.errorCount}}

modesChecked == symbols.pc \in {"modesChecked", "checked"} /\ symbols.modes # <<>>
modeNamesOfLexer == {symbols.modes[k].name : k \in 1..Len(symbols.modes)}
tokenNamesOfLexer == {g.tokenNameToTypeMap[i].key : i \in 1..Len(g.tokenNameToTypeMap)}
modeConflictCodes == {"ModeConflictsWithCommonConstants", "ModeConflictsWithToken"}
reportedModes ==
    {symbols.messages[i].arg : i \in {k \in 1..Len(symbols.messages) :
                                         symbols.messages[k].code \in modeConflictCodes}}

\* C24 as stated: every mode of a lexer grammar whose name is a token name or one of the common
\* constants (DEFAULT_MODE among them) is reported as a mode conflict, and no other mode is.
C24_ModeConflictsReported ==
    modesChecked =>
        \A name \in modeNamesOfLexer :
            name \in reportedModes <=> name \in tokenNamesOfLexer \cup COMMON_CONSTANTS

\* C24: every mode of a lexer grammar whose name is a token name or one of the common constants
\* other than DEFAULT_MODE is reported as a mode conflict, and no mode conflict is reported for
\* any other mode; the mode DEFAULT_MODE is reported only when a token has that name.
C24_ModeConflictsButDefaultMode ==
    modesChecked =>
        \A name \in modeNamesOfLexer :
            name \in reportedModes
                <=> name \in tokenNamesOfLexer \cup (COMMON_CONSTANTS \ {"DEFAULT_MODE"})
C24_Witness ==
    /\ modesChecked
    /\ {"DEFAULT_MODE", "A"} \subseteq modeNamesOfLexer
    /\ "A" \in tokenNamesOfLexer
    /\ reportedModes = {"A"}

unreachableChecked == symbols.pc = "checked" /\ symbols.modes # <<>>
\* The strings an alternative matches when it consists of string literals only.
matched(alt) == IF alt.text = null THEN {} ELSE {unquoted(alt.text)}
unreachableReported(later, value, earlier) ==
    \E i \in 1..Len(symbols.messages) :
        symbols.messages[i] = [code |-> "TokenUnreachable", rule |-> later, value |-> value, by |-> earlier]
modeOfRule(name) ==
    CHOOSE k \in 1..Len(symbols.modes) :
        \E i \in 1..Len(symbols.modes[k].rules) : symbols.modes[k].rules[i].name = name

\* C23: in a lexer grammar, whenever two definitions in one mode match the same simple literal
\* string (alternatives of two non-fragment rules, or two alternatives of one rule),
\* TOKEN_UNREACHABLE is reported on the later definition and names the rule of the earlier one;
\* equal literals in rules of different modes never produce the message.
C23_UnreachableReported ==
    unreachableChecked =>
        /\ \A k \in 1..Len(symbols.modes) :
               LET modeRules == symbols.modes[k].rules
               IN \A i, j \in 1..Len(modeRules) :
                      \A p \in 1..Len(modeRules[i].alts), q \in 1..Len(modeRules[j].alts) :
                          \A value \in matched(modeRules[i].alts[p]) \cap matched(modeRules[j].alts[q]) :
                              (\/ i < j /\ ~modeRules[i].fragment /\ ~modeRules[j].fragment
                               \/ i = j /\ p < q)
                                  => unreachableReported(modeRules[j].name, value, modeRules[i].name)
        /\ \A i \in 1..Len(symbols.messages) :
               symbols.messages[i].code = "TokenUnreachable"
                   => modeOfRule(symbols.messages[i].rule) = modeOfRule(symbols.messages[i].by)

(***************************************************************************)
(* Claims about the extraction of the implicit lexer                       *)
(***************************************************************************)
extracted == extraction.pc = "extracted"
parsedRules == extraction.parsed.rules
lexerRuleNames == {parsedRules[i].name : i \in {k \in 1..Len(parsedRules) : isTokenName(parsedRules[k].name)}}
referencedLiterals ==
    UNION {{parsedRules[i].literals[k] : k \in 1..Len(parsedRules[i].literals)} :
               i \in {k \in 1..Len(parsedRules) : ~isTokenName(parsedRules[k].name)}}
aliasedLiterals ==
    {parsedRules[i].lit : i \in {k \in 1..Len(parsedRules) :
                                    isTokenName(parsedRules[k].name) /\ parsedRules[k].lit # null}}
generatedRules ==
    {i \in 1..Len(extraction.lexerAST.rules) : extraction.lexerAST.rules[i].name \notin lexerRuleNames}

\* C19: the extraction returns no lexer AST whenever the final rule list of the extracted lexer
\* would be empty, that is whenever the combined grammar has neither a lexer rule nor a string
\* literal that needs a generated rule; an AST that is returned has rules.
C19_NoEmptyLexer ==
    extracted =>
        /\ (lexerRuleNames = {} /\ referencedLiterals \ aliasedLiterals = {}) =>
               extraction.returned = <<>> /\ ~extraction.implicitLexer
        /\ extraction.returned # <<>> => Len(extraction.returned[1].rules) > 0
C19_Witness ==
    /\ extracted
    /\ Len(parsedRules) > 0
    /\ lexerRuleNames = {} /\ referencedLiterals = {}
    /\ extraction.returned = <<>>

\* C21: the names of the generated lexer rules have the form T__<n>, and the numbers n grow
\* strictly in the order in which the rules of one grammar are generated, so that no two
\* generated rules of the grammar have the same name.
generatedCount == Len(extraction.lexerAST.rules) - Cardinality(lexerRuleNames)
numberOf(name) ==
    CHOOSE n \in -1..extraction.stringLiteralRuleNumber :
        \/ name = AUTO_GENERATED_TOKEN_NAME_PREFIX \o ToString(n)
        \/ n = -1 /\ \A k \in 0..extraction.stringLiteralRuleNumber :
                         name # AUTO_GENERATED_TOKEN_NAME_PREFIX \o ToString(k)
C21_GeneratedNamesIncrease ==
    extracted =>
        \A i \in 1..generatedCount :
            /\ numberOf(extraction.lexerAST.rules[i].name) \in 0..(extraction.stringLiteralRuleNumber - 1)
            /\ \A j \in 1..generatedCount :
                   /\ i < j => numberOf(extraction.lexerAST.rules[i].name)
                                   < numberOf(extraction.lexerAST.rules[j].name)
                   /\ i # j => extraction.lexerAST.rules[i].name # extraction.lexerAST.rules[j].name
C21_Witness ==
    /\ extracted
    /\ generatedCount >= 2
    /\ lexerRuleNames # {}

\* C20: a lexer rule is generated for a string literal the parser rules refer to only if no
\* lexer rule of the form X : 'literal' aliases the literal, and every such literal without an
\* alias gets a generated rule (one rule, with the literal as its only alternative).
C20_GeneratedForUnaliased ==
    extracted =>
        /\ \A i \in generatedRules :
               /\ extraction.lexerAST.rules[i].lit \in referencedLiterals \ aliasedLiterals
               /\ \A j \in generatedRules :
                      extraction.lexerAST.rules[j].lit = extraction.lexerAST.rules[i].lit => i = j
        /\ \A lit \in referencedLiterals \ aliasedLiterals :
               \E i \in generatedRules : extraction.lexerAST.rules[i].lit = lit
C20_Witness ==
    /\ extracted
    /\ referencedLiterals \cap aliasedLiterals # {}
    /\ referencedLiterals \ aliasedLiterals # {}
    /\ generatedRules # {}

(***************************************************************************)
(* Claims about the integration of imported grammars                       *)
(***************************************************************************)
integrated == integration.pc = "integrated" /\ integration.imports # <<>>
mergedRules == allRules(integration.root)
declaredInRoot(name) ==
    \E i \in 1..Len(allRules(integration.parsed)) : allRules(integration.parsed)[i].name = name
imported(node) == node.g # integration.root.name

\* C16: after import integration the root always wins: a rule name declared in the root grammar
\* keeps the root's definition, an imported rule is added only if no rule of that name is
\* already present, and every rule name occurs at most once in the merged grammar.
C16_RootWins ==
    integrated =>
        /\ \A i \in 1..Len(mergedRules) :
               imported(mergedRules[i]) => ~declaredInRoot(mergedRules[i].name)
        /\ \A i, j \in 1..Len(mergedRules) :
               mergedRules[i].name = mergedRules[j].name => i = j

\* C17: when an imported mode is merged, its rules whose names already exist in the root are
\* skipped, and a mode that the root does not declare is added only if at least one of its
\* rules was added: a merged mode that ends up empty is never added.
mergedModes == integration.root.modes
declaredMode(name) ==
    \E k \in 1..Len(integration.parsed.modes) : integration.parsed.modes[k].name = name
C17_ModesMerged ==
    integrated =>
        \A k \in 1..Len(mergedModes) :
            /\ \A i \in 1..Len(mergedModes[k].rules) :
                   imported(mergedModes[k].rules[i]) => ~declaredInRoot(mergedModes[k].rules[i].name)
            /\ ~declaredMode(mergedModes[k].name) =>
                   \E i \in 1..Len(mergedModes[k].rules) : imported(mergedModes[k].rules[i])

\* C18: two definitions of the same named action in the same scope that belong to different
\* grammars are merged into one action whose body is the first body followed by the second
\* inside one brace block; two definitions that belong to the same grammar signal
\* ACTION_REDEFINITION and are not merged.
scopedName(node) ==
    <<IF node.scope # null THEN node.scope ELSE getDefaultActionScope(integration.type), node.name>>
RECURSIVE actionsOfAll(_, _)
actionsOfAll(asts, i) == IF i > Len(asts) THEN <<>> ELSE asts[i].actions \o actionsOfAll(asts, i + 1)
definedActions == integration.parsed.actions \o actionsOfAll(integration.imports, 1)
mergedActions == integration.root.actions
bodyOf(node) == node.text[2]
holds(text, body) == \E p \in 1..Len(text) : text[p] = body
follows(text, first, second) ==
    \E p, q \in 1..Len(text) : p < q /\ text[p] = first /\ text[q] = second
oneBlock(text) == \A p \in 1..Len(text) : (text[p] = "{") = (p = 1) /\ (text[p] = "}") = (p = Len(text))
C18_ActionsMerged ==
    integrated =>
        \A i, j \in 1..Len(definedActions) :
            LET first == definedActions[i]
                second == definedActions[j]
            IN i < j /\ scopedName(first) = scopedName(second) =>
                   IF first.g # second.g
                   THEN \E a \in 1..Len(mergedActions) :
                            /\ oneBlock(mergedActions[a].text)
                            /\ follows(mergedActions[a].text, bodyOf(first), bodyOf(second))
                   ELSE /\ \E e \in 1..Len(integration.messages) :
                               integration.messages[e] = [code |-> "ACTION_REDEFINITION", g |-> second.g]
                        /\ \A a \in 1..Len(mergedActions) :
                               ~(holds(mergedActions[a].text, bodyOf(first))
                                 /\ holds(mergedActions[a].text, bodyOf(second)))

(***************************************************************************)
(* Claims about a second run of the SemanticPipeline                       *)
(***************************************************************************)
\* What a map holds, whatever the order of its entries.
entries(map) == {map[i] : i \in 1..Len(map)}
symbolTables(gr, table) ==
    [rules |-> {[name |-> table[i].name, index |-> i - 1] : i \in 1..Len(table)},
     tokens |-> entries(gr.tokenNameToTypeMap),
     literals |-> entries(gr.stringLiteralToTypeMap),
     channels |-> entries(gr.channelNameToValueMap)]
secondRun == semantic.processed /\ semantic'.runs = semantic.runs + 1

\* C15: running the SemanticPipeline a second time on an already processed grammar leaves the
\* symbol tables unchanged: no new rule, token name, string literal or channel appears, and no
\* existing name changes its index, type or value.
C15_SecondRunKeepsTables ==
    [][secondRun => symbolTables(g', semantic'.rules) = symbolTables(g, semantic.rules)]_vars

(***************************************************************************)
(* Claims about the literals of a lexer grammar                            *)
(***************************************************************************)
firstLexerRun == semantic.processed /\ semantic.runs = 1 /\ semantic.ast.kind = "lexer"
rulesWithBody(lit) == {i \in 1..Len(semantic.ast.rules) : semantic.ast.rules[i].lit = lit}
aliasOfOneRule(lit) ==
    \E i \in rulesWithBody(lit) :
        /\ rulesWithBody(lit) = {i}
        /\ has(g.stringLiteralToTypeMap, lit)
        /\ has(g.tokenNameToTypeMap, semantic.ast.rules[i].name)
        /\ valueOf(g.stringLiteralToTypeMap, lit)
               = valueOf(g.tokenNameToTypeMap, semantic.ast.rules[i].name)

\* C22: after the token types of a lexer grammar were assigned, a literal that is the whole body
\* of exactly one lexer rule maps to the token type of that rule in stringLiteralToTypeMap, and
\* a literal that is the whole body of two or more lexer rules has no entry in that map.
C22_AliasOfExactlyOneRule ==
    firstLexerRun =>
        \A lit \in Literals :
            /\ Cardinality(rulesWithBody(lit)) = 1 => aliasOfOneRule(lit)
            /\ Cardinality(rulesWithBody(lit)) >= 2 => ~has(g.stringLiteralToTypeMap, lit)

(***************************************************************************)
(* Claims about the load of imported grammars                              *)
(***************************************************************************)
\* C14: loading the imported grammars of a root grammar terminates for every import graph,
\* including graphs with import cycles and self-imports: a grammar whose name is already in
\* the visited set of the current load is never loaded or descended into again.
C14_LoadTerminates ==
    loading.pc = "loaded" =>
        /\ loading.load.ends
        /\ \A d \in 1..Len(loading.load.descents) :
               loading.load.descents[d].name \notin loading.load.descents[d].visited

\* The same for grammar files that declare the grammar of their name.
wellNamed == \A f \in GrammarFiles : loading.fileSystem[f].name = f
loadOfWellNamedTerminates == wellNamed => C14_LoadTerminates

\* C29: within one tool instance an imported grammar is read and parsed at most once per
\* import name: no name is read twice in a load, every later import of the name gets the
\* grammar stored in the imported-grammar map.
C29_ReadOncePerImportName ==
    loading.pc = "loaded" =>
        \A i, j \in 1..Len(loading.load.reads) :
            loading.load.reads[i] = loading.load.reads[j] => i = j

\* The same for grammar files that declare the grammar of their name.
readOnceIfWellNamed == wellNamed => C29_ReadOncePerImportName

(***************************************************************************)
(* Claims about the channels of a Grammar                                  *)
(***************************************************************************)
definedChannels == {g.channelNameToValueMap[i].key : i \in 1..Len(g.channelNameToValueMap)}
valueOfChannel(name) == valueOf(g.channelNameToValueMap, name)

\* A sequence of numbers that increases strictly.
increasing(numbers) == \A i, j \in 1..Len(numbers) : i < j => numbers[i] < numbers[j]

\* Automatically assigned numbers increase strictly in definition order, are at least
\* MIN_USER_CHANNEL_VALUE, and no two channel names share a number.
channelNumbersIncrease ==
    /\ increasing(g.newChannelNumbers)
    /\ \A i \in 1..Len(g.newChannelNumbers) : g.newChannelNumbers[i] >= MIN_USER_CHANNEL_VALUE
    /\ \A i \in 1..Len(g.newChannelNumbers) :
           Cardinality({name \in definedChannels : valueOfChannel(name) = g.newChannelNumbers[i]}) = 1
    /\ \A i, j \in 1..Len(g.channelNameToValueMap) :
           /\ i < j
           /\ g.channelNameToValueMap[i].value \in {g.newChannelNumbers[k] : k \in 1..Len(g.newChannelNumbers)}
           /\ g.channelNameToValueMap[j].value \in {g.newChannelNumbers[k] : k \in 1..Len(g.newChannelNumbers)}
           => g.channelNameToValueMap[i].value < g.channelNameToValueMap[j].value

\* C11 as stated: channels defined without an explicit value receive strictly increasing
\* channel numbers in definition order, the first one being MIN_USER_CHANNEL_VALUE, and no two
\* distinct channel names share a number assigned this way.
C11_FirstChannelIsMinUserValue ==
    /\ channelNumbersIncrease
    /\ g.newChannelNumbers # <<>> => g.newChannelNumbers[1] = MIN_USER_CHANNEL_VALUE

\* Every automatic assignment gives maxChannelType + 1, which for the first one is
\* MIN_USER_CHANNEL_VALUE as long as maxChannelType has its initial value.
nextChannelNumber ==
    \A i \in 1..Len(g'.newChannelNumbers) :
        i > Len(g.newChannelNumbers) =>
            /\ g'.newChannelNumbers[i] = g.maxChannelType + 1 + (i - 1 - Len(g.newChannelNumbers))
            /\ (i = 1 /\ g.maxChannelType = MIN_USER_CHANNEL_VALUE - 1)
                   => g'.newChannelNumbers[i] = MIN_USER_CHANNEL_VALUE

\* C11, amended: channels defined without an explicit value receive strictly increasing
\* channel numbers in definition order, each one more than maxChannelType, and no two distinct
\* channel names share a number assigned this way; the first one is MIN_USER_CHANNEL_VALUE
\* unless an imported vocabulary has brought channels into the grammar before.
C11_ChannelNumbersIncrease == []channelNumbersIncrease /\ [][nextChannelNumber]_vars

\* Two channels got their numbers automatically after a vocabulary with a channel was
\* imported, and a repeated name kept its number.
C11_Witness ==
    /\ Len(g.newChannelNumbers) = 2
    /\ g.newChannelNumbers[1] > MIN_USER_CHANNEL_VALUE
    /\ Cardinality(definedChannels) = 3
    /\ errors > 0

(***************************************************************************)
(* Claims about the token tables of a Grammar                              *)
(***************************************************************************)
\* The token names defined in the grammar, EOF aside, and its string literals.
namedTokens == {g.tokenNameToTypeMap[i].key : i \in 1..Len(g.tokenNameToTypeMap)} \ {"EOF"}
definedLiterals == {g.stringLiteralToTypeMap[i].key : i \in 1..Len(g.stringLiteralToTypeMap)}
typeOfName(name) == valueOf(g.tokenNameToTypeMap, name)
typeOfLiteral(lit) == valueOf(g.stringLiteralToTypeMap, lit)

\* typeToTokenList[t], null where the list has no such entry.
tokenForType(t) == IF t >= 0 /\ t < Len(g.typeToTokenList) THEN at(g.typeToTokenList, t) ELSE null

agreeOnType ==
    \A name \in namedTokens :
        LET t == typeOfName(name)
        IN /\ tokenForType(t) \in namedTokens
           /\ typeOfName(tokenForType(t)) = t
           /\ (\A other \in namedTokens : typeOfName(other) = t => other = name)
                  => tokenForType(t) = name

\* An entry of typeToTokenList that holds a token name keeps it.
firstNameKept ==
    \A name \in namedTokens :
        tokenForType(typeOfName(name)) = name => tokenForType(typeOfName(name))' = name

typeZeroReserved ==
    /\ \A name \in namedTokens : typeOfName(name) # INVALID_TYPE
    /\ \A lit \in definedLiterals : typeOfLiteral(lit) # INVALID_TYPE
    /\ \A i \in 1..Len(g.newTokenTypes) : g.newTokenTypes[i] >= MIN_USER_TOKEN_TYPE

firstAllocation ==
    (g.newTokenTypes = <<>> /\ g'.newTokenTypes # <<>>) =>
        /\ g'.newTokenTypes[1] = g.maxTokenType + 1
        /\ g.maxTokenType = MIN_USER_TOKEN_TYPE - 1 => g'.newTokenTypes[1] = MIN_USER_TOKEN_TYPE

stagesRun == {ran[i] : i \in 1..Len(ran)}

\* C2: within one processNonCombinedGrammar call, when the error count grew during the semantic
\* pipeline no ATN is built and neither analysis nor code generation runs, and when it grew
\* between the start of the semantic pipeline and the end of analysis no code is generated.
C2_StagesAbortOnErrors ==
    /\ "sem" \in raised => stagesRun \cap {"atn", "interp", "anal", "gen"} = {}
    /\ raised \cap {"sem", "atn", "interp", "anal"} # {} => "gen" \notin stagesRun

\* C2 witness: the semantic pipeline reported an error and the call returned after it.
C2_Witness ==
    /\ ran = <<"rules", "sem">>
    /\ "sem" \in raised
    /\ pc # "sem"

\* C6: a run during which processing the grammars reported an error ends with a non-zero exit
\* code; exit code 0 means that processing succeeded.
C6_ExitCodeTellsFailure ==
    pc = "exited" /\ processErrors > 0 => exitCode # 0

(***************************************************************************)
(* Claims about the SemanticPipeline                                       *)
(***************************************************************************)
\* The passes in semRan.
passesRun == {semRan[i] : i \in 1..Len(semRan)}

\* The position of a pass in the program order.
passNumber(pass) == CHOOSE i \in 1..Len(Passes) : Passes[i] = pass

\* The passes always run in the order of Passes, without a gap.
fixedOrder == Len(semRan) <= Len(Passes) /\ \A i \in 1..Len(semRan) : semRan[i] = Passes[i]

\* C3 as stated: the passes run in one fixed order and no pass runs after a pass that raised
\* the error count.
C3_AnyRaiseStopsPipeline ==
    /\ fixedOrder
    /\ \A pass \in semRaised : \A later \in passesRun : passNumber(later) <= passNumber(pass)

\* C3 as amended: the passes run in one fixed order; no pass runs after the basic checks or
\* the left-recursion transformation raised the count; after any other pass up to
\* checkForQualifiedRuleIssues raised it, the passes up to checkForQualifiedRuleIssues still
\* run and only AttributeChecks and UseDefAnalyzer are left out (as they are whenever the
\* count is not zero after checkForQualifiedRuleIssues).
C3_TestedAtThreePoints ==
    /\ fixedOrder
    /\ \A pass \in semRaised \cap {"BasicSemanticChecks", "LeftRecursiveRuleTransformer"} :
            \A later \in passesRun : passNumber(later) <= passNumber(pass)
    /\ (\E pass \in semRaised : passNumber(pass) <= passNumber("checkForQualifiedRuleIssues"))
            => passesRun \cap {"AttributeChecks", "UseDefAnalyzer"} = {}
    /\ (semPc = 0 /\ semRaised \cap {"BasicSemanticChecks", "LeftRecursiveRuleTransformer"} = {})
            => "checkForQualifiedRuleIssues" \in passesRun
    /\ ("AttributeChecks" \in passesRun /\ semRaised = {}) => errors = 0

\* C3 witness: SymbolChecks reported an error, the passes up to checkForQualifiedRuleIssues ran
\* all the same, and the pipeline returned before AttributeChecks.
C3_Witness ==
    /\ semPc = 0
    /\ semRaised = {"SymbolChecks"}
    /\ "assignChannelTypes" \in passesRun
    /\ Len(semRan) = passNumber("checkForQualifiedRuleIssues")

(***************************************************************************)
(* Claims about the rule table                                             *)
(***************************************************************************)
\* The Rule objects in the rule map.
definedRules == {rules[i].rule : i \in 1..Len(rules)}

\* Every rule of the rule map is found under its name and under its index, and the indexes are
\* the positions 0..n-1 of the rules in the map.
rulesIndexed ==
    /\ Len(indexToRule) = Len(rules)
    /\ ruleNumber = Len(rules)
    /\ \A i \in 1..Len(rules) :
        /\ rules[i].name = ruleName(rules[i].rule)
        /\ ruleIndex[rules[i].rule] = i - 1
        /\ indexToRule[i] = rules[i].rule
    /\ \A i, j \in 1..Len(rules) : rules[i].name = rules[j].name => i = j

\* A step that removes a rule lowers the index of every later rule by one, keeps the index of
\* every earlier rule and decrements the rule counter.
removalRenumbers ==
    \A r \in definedRules \ definedRules' :
        /\ ruleNumber' = ruleNumber - 1
        /\ \A x \in definedRules' :
            ruleIndex'[x] = IF ruleIndex[x] > ruleIndex[r] THEN ruleIndex[x] - 1 ELSE ruleIndex[x]

\* C7: after any sequence of defineRule and undefineRule calls every rule r of the rule map
\* has rules[r.name] = r and indexToRule[r.index] = r, the indexes are the positions 0..n-1 in
\* definition order, and a removal renumbers the later rules and decrements the counter.
C7_RuleIndexes == []rulesIndexed /\ [][removalRenumbers]_vars

\* C7 witness: a rule was removed from in front of two rules that are still defined, and a rule
\* removed earlier still carries its old index.
C7_Witness ==
    /\ Len(rules) = 2
    /\ \E r \in RuleObjects \ definedRules : ruleIndex[r] = 0
    /\ \E r \in definedRules : r > 2 /\ ruleIndex[r] = 0

(***************************************************************************)
(* Claims about the ErrorManager                                           *)
(***************************************************************************)
\* The message of the call that lastCall records.
calledMsg(trace) == ANTLRMessage(trace[1].code, trace[1].loc)

\* The notifications in a trace.
notifications(trace) == {i \in 1..Len(trace) : trace[i].ev \in {"error", "warning"}}

\* A step that is an emitting call (grammarError, toolError, syntaxError).
emitStep == vars' # vars /\ lastCall' # <<>>

\* C1: a message of severity WarningOneOff or ErrorOneOff is counted and delivered only the
\* first time its issue code is seen; a later emit of the same code changes neither counter
\* and notifies no listener.
C1_OneOffOnlyFirstTime ==
    [][emitStep /\ severity(calledMsg(lastCall').code) \in {"WarningOneOff", "ErrorOneOff"} =>
        LET msg == calledMsg(lastCall')
        IN IF msg.code \in errorTypes
           THEN /\ errors' = errors
                /\ warnings' = warnings
                /\ notifications(lastCall') = {}
           ELSE /\ \E i \in notifications(lastCall') : lastCall'[i].code = msg.code
                /\ severity(msg.code) = "WarningOneOff" => warnings' = warnings + 1
                /\ severity(msg.code) = "ErrorOneOff" => errors' = errors + 1]_vars

\* C1 witness: the last call emitted a one-off issue that was suppressed.
C1_Witness ==
    /\ Len(lastCall) = 1
    /\ lastCall[1].code \in {"WO", "EO"}
    /\ lastCall[1].code \in errorTypes
    /\ errors + warnings > 0

\* C4: with warningsAreErrors, each warning delivered to the listeners is followed, right after
\* its notifications, by the emit of one WarningTreatedAsErrors message with the same location.
C4_WarningPromoted ==
    [][emitStep /\ warningsAreErrors =>
        LET trace == lastCall'
            told == {i \in 1..Len(trace) : trace[i].ev = "warning"}
            promoted == {j \in 2..Len(trace) : trace[j].ev = "emit" /\ trace[j].code = "WTAE"}
        IN /\ \A i \in told : \E j \in promoted :
                /\ j > i
                /\ trace[j].loc = trace[i].loc
                /\ \A k \in (i + 1)..(j - 1) : trace[k].ev = "warning"
           /\ told # {} => Cardinality(promoted) = 1
           /\ told = {} => promoted = {}]_vars

\* C4 witness: a warning was delivered to two listeners while warningsAreErrors was set.
C4_Witness ==
    /\ warningsAreErrors
    /\ Len(listeners) = 2
    /\ Len(lastCall) >= 4
    /\ lastCall[2].ev = "warning"
    /\ lastCall[3].ev = "warning"
    /\ lastCall[1].loc = 1

\* TRUE when the emitted message is suppressed (a one-off issue seen before, or an Info).
suppressed(msg) ==
    \/ severity(msg.code) = "Info"
    \/ severity(msg.code) \in {"WarningOneOff", "ErrorOneOff"} /\ msg.code \in errorTypes

\* C5: an error or warning that is not suppressed is delivered within the emitting call to
\* every registered listener (every entry of the listener array) exactly once, in the order of
\* the addListener calls.
C5_ListenersInOrder ==
    [][emitStep /\ ~suppressed(calledMsg(lastCall')) /\ Len(listeners) > 0 =>
        LET msg == calledMsg(lastCall')
            trace == lastCall'
            n == Len(listeners)
            kind == IF severity(msg.code) \in {"Warning", "WarningOneOff"} THEN "warning" ELSE "error"
        IN /\ Len(trace) >= 1 + n
           /\ \A k \in 1..n : trace[1 + k] = [ev |-> kind, to |-> listeners[k], code |-> msg.code, loc |-> msg.loc]
           /\ \A i \in notifications(trace) : i > 1 + n => trace[i].code # msg.code
           /\ \A i \in notifications(trace) : trace[i].to # "default"]_vars

\* C5 witness: two different listeners are registered and the last message reached the first
\* one, then the second one.
C5_Witness ==
    /\ Len(listeners) = 2
    /\ listeners[1] # listeners[2]
    /\ Len(lastCall) >= 3
    /\ lastCall[2].to = listeners[1]
    /\ lastCall[3].to = listeners[2]


(***************************************************************************)
(* Claims about the runs of the ErrorManager                               *)
(***************************************************************************)
\* The emit events of a trace whose message was delivered as an error: emit hands the message
\* to error(), which notifies the registered listeners or the default listener.
deliveredErrors(trace) ==
    {i \in 1..Len(trace) : /\ trace[i].ev = "emit"
                           /\ i < Len(trace)
                           /\ trace[i + 1].ev = "error"
                           /\ trace[i + 1].code = trace[i].code}

\* C27: configure resets the diagnostic state of a run: the step that lowers a count leaves the
\* error count and the warning count at 0, and in a run that has counted nothing yet a one-off
\* issue is delivered and counted when it occurs, whatever the runs before reported.
C27_ConfigureResetsRun ==
    [][/\ (errors' < errors \/ warnings' < warnings) => errors' = 0 /\ warnings' = 0
       /\ (/\ emitStep
           /\ errors = 0 /\ warnings = 0
           /\ severity(calledMsg(lastCall').code) \in {"WarningOneOff", "ErrorOneOff"})
              => /\ \E i \in notifications(lastCall') : lastCall'[i].code = calledMsg(lastCall').code
                 /\ errors' + warnings' > 0]_vars

\* The change of the error count in a call is the number of error messages the call delivered,
\* every one of severity Error, ErrorOneOff or Fatal, and only configure lowers the count.
errorsCountDelivered ==
    /\ emitStep =>
           /\ errors' = errors + Cardinality(deliveredErrors(lastCall'))
           /\ \A i \in deliveredErrors(lastCall') :
                  severity(lastCall'[i].code) \in {"Error", "ErrorOneOff", "Fatal"}
    /\ errors' < errors => errors' = 0 /\ lastCall' = <<>>
    /\ errors' # errors => lastCall' # <<>> \/ errors' = 0

\* C28: between two configure calls the error count never decreases and always equals the
\* number of messages of severity Error, ErrorOneOff or Fatal that were delivered to the
\* registered listeners or to the default listener; a suppressed message and a message of
\* severity Info or Warning never change it.
C28_WarningNeverCounts ==
    [][/\ errorsCountDelivered
       /\ (/\ emitStep
           /\ \/ suppressed(calledMsg(lastCall'))
              \/ severity(calledMsg(lastCall').code) \in {"Info", "Warning"})
              => errors' = errors]_vars

\* C28 (amended): as above, but a delivered warning leaves the error count alone only while
\* warningsAreErrors is off; with warningsAreErrors on, the WarningTreatedAsErrors message that
\* warning() emits after it is counted like every other error message when it is delivered.
C28_ErrorsCountDelivered ==
    [][/\ errorsCountDelivered
       /\ (/\ emitStep
           /\ \/ suppressed(calledMsg(lastCall'))
              \/ severity(calledMsg(lastCall').code) = "Info"
              \/ /\ severity(calledMsg(lastCall').code) \in {"Warning", "WarningOneOff"}
                 /\ ~warningsAreErrors)
              => errors' = errors
       /\ (/\ emitStep
           /\ ~suppressed(calledMsg(lastCall'))
           /\ severity(calledMsg(lastCall').code) \in {"Warning", "WarningOneOff"}
           /\ warningsAreErrors)
              => /\ \A i \in deliveredErrors(lastCall') : lastCall'[i].code = "WTAE"
                 /\ errors' - errors \in {0, 1}]_vars
C28_Witness ==
    /\ errors = 1 /\ warnings = 1
    /\ warningsAreErrors
    /\ Len(listeners) = 0
    /\ Len(lastCall) = 4
    /\ lastCall[1].code = "W" /\ lastCall[3].code = "WTAE" /\ lastCall[4].to = "default"

=============================================================================
